---- MODULE Spec2Model ----
(***************************************************************************)
(* peri-tracker: the analytics functions of utils/analysis.js              *)
(* (src/unnamed/part_003) and the cycle_periods part of                    *)
(* database/database.js, as state machines.                                *)
(*                                                                         *)
(* Dates are ISO 'YYYY-MM-DD' strings in the program; here a date is the   *)
(* number of the calendar day it names.  new Date(str) parses such a      *)
(* string as UTC midnight, which DateHours models, in hours since 1970.    *)
(* Quotients that the program keeps as floating point numbers are kept as  *)
(* fractions [num, den] with den > 0 and compared by cross                 *)
(* multiplication.                                                         *)
(***************************************************************************)
EXTENDS Integers, Sequences, FiniteSets, TLC

VARIABLES
    logs,            \* the array of daily logs handed to the analysis functions
    utcOffsetHours,  \* the time zone of the device: local time minus UTC, in hours
    cycleStatsArg,   \* the cycleStats argument of analyzePatterns
    patterns,        \* InsightsScreen: result of analyzePatterns
    symptomCounts,   \* getSymptomCorrelations: local symptomCounts
    pairCounts,      \* getSymptomCorrelations: local pairCounts, in key insertion order
    correlations,    \* getSymptomCorrelations: local correlations, after the sort
    correlationData, \* InsightsScreen: result of getSymptomCorrelations
    trends,          \* InsightsScreen: result of getTrends
    cycle_periods,   \* table cycle_periods: set of rows
    lastInsertRowId, \* AUTOINCREMENT counter of cycle_periods
    periods,         \* getCycleStats: local periods (the query result)
    cycleStats,      \* result of getCycleStats
    calls,           \* the calls of startPeriod, endPeriod and deletePeriod, in order of call
    returned,        \* the functions that have been called and have returned
    thrown,          \* the functions that have been called and have thrown
    db,              \* database.js: let db, null or the handle that was opened last
    isInitializing,  \* database.js: let isInitializing
    opened,          \* the number of handles that openDatabaseAsync has returned
    callers,         \* the calls of initDatabase and withDatabase that are in flight or over
    daily_logs,      \* table daily_logs: set of rows
    symptoms,        \* table symptoms: set of rows
    medication_logs, \* table medication_logs: set of rows
    sqlite_sequence, \* the AUTOINCREMENT counters of the three tables
    now              \* the clock that CURRENT_TIMESTAMP reads

vars == <<logs, utcOffsetHours, cycleStatsArg, patterns, symptomCounts, pairCounts, correlations,
          correlationData, trends, cycle_periods, lastInsertRowId, periods, cycleStats,
          calls, returned, thrown, db, isInitializing, opened, callers,
          daily_logs, symptoms, medication_logs, sqlite_sequence, now>>

analysisVars == <<logs, utcOffsetHours, cycleStatsArg, patterns, symptomCounts, pairCounts,
                  correlations, correlationData, trends>>
databaseVars == <<cycle_periods, lastInsertRowId, periods, cycleStats, calls>>
connectionVars == <<db, isInitializing, opened, callers>>
storeVars == <<daily_logs, symptoms, medication_logs, sqlite_sequence, now>>

\* null is the empty sequence and a value that may be null is the sequence
\* of itself: a field that holds 5 is <<5>>, an empty array is << <<>> >>
Null == <<>>
Some(v) == <<v>>

(***************************************************************************)
(* Small helpers                                                           *)
(***************************************************************************)
Min(a, b) == IF a <= b THEN a ELSE b

Range(s) == {s[i] : i \in DOMAIN s}

RECURSIVE Concat(_)
Concat(ss) == IF ss = <<>> THEN <<>> ELSE Head(ss) \o Concat(Tail(ss))

RECURSIVE Reverse(_)
Reverse(s) == IF s = <<>> THEN <<>> ELSE Append(Reverse(Tail(s)), Head(s))

Copies(n, x) == [i \in 1..n |-> x]

\* Body(value), the value computed before Body is entered
Then(value, Body(_)) == CHOOSE result \in {Body(v) : v \in {value}} : TRUE

\* s[low] + ... + s[high]
RECURSIVE SumRange(_, _, _)
SumRange(s, low, high) ==
    IF high < low THEN 0
    ELSE IF high = low THEN s[low]
    ELSE SumRange(s, low, (low + high) \div 2) + SumRange(s, (low + high) \div 2 + 1, high)

SumSeq(s) == SumRange(s, 1, Len(s))

\* fractions
Frac(n, d) == [num |-> n, den |-> d]
FracGt(x, y) == x.num * y.den > y.num * x.den
FracEq(x, y) == x.num * y.den = y.num * x.den
FracMinus(x, y) == Frac(x.num * y.den - y.num * x.den, x.den * y.den)
FracLe(x, y) == x.num * y.den <= y.num * x.den

(***************************************************************************)
(* Number arithmetic where the result of analysis.js depends on rounding:  *)
(* IEEE-754 doubles, rounded to nearest, ties to even.  A natural number   *)
(* of any size is the sequence of its limbs in base 2^15, least            *)
(* significant first, without a leading zero limb; a double is a sign, a   *)
(* mantissa of at most 53 bits and an exponent, its value m * 2^e.         *)
(***************************************************************************)
LIMB_BITS == 15
LIMB == 2^LIMB_BITS
MANTISSA_BITS == 53

Pow2(k) == 2^k

\* the bits of a limb k: 0 for 0, and b for 2^(b - 1) <= k < 2^b
BitLenSmall(k) ==
    IF k = 0 THEN 0 ELSE CHOOSE b \in 1..LIMB_BITS : Pow2(b - 1) <= k /\ k < Pow2(b)

\* a without its leading zero limbs
BigNorm(a) ==
    LET limbs == SubSeq(a, 1, Len(a))
        used == {i \in DOMAIN limbs : limbs[i] # 0}
    IN  IF used = {} THEN <<>>
        ELSE SubSeq(limbs, 1, CHOOSE i \in used : \A j \in used : j <= i)

RECURSIVE BigOfNat(_)
BigOfNat(k) == IF k = 0 THEN <<>> ELSE <<k % LIMB>> \o BigOfNat(k \div LIMB)

\* limb i of a, 0 above its length
Limb(a, i) == IF i \in DOMAIN a THEN a[i] ELSE 0

\* a + b: a limb takes a carry when a limb below it overflows and the limbs
\* between the two are full
BigAdd(a, b) ==
    LET limbs == 1 + (IF Len(a) < Len(b) THEN Len(b) ELSE Len(a))
        sum == SubSeq([i \in 1..limbs |-> Limb(a, i) + Limb(b, i)], 1, limbs)
        carry(i) == IF \E j \in 1..(i - 1) :
                           sum[j] >= LIMB /\ \A k \in (j + 1)..(i - 1) : sum[k] = LIMB - 1
                    THEN 1 ELSE 0
    IN  BigNorm([i \in 1..limbs |-> (sum[i] + carry(i)) % LIMB])

\* a - b, for a >= b: a limb gives a borrow when a limb below it falls short
\* and the limbs between the two leave nothing
BigSub(a, b) ==
    LET diff == SubSeq([i \in DOMAIN a |-> a[i] - Limb(b, i)], 1, Len(a))
        borrow(i) == IF \E j \in 1..(i - 1) :
                            diff[j] < 0 /\ \A k \in (j + 1)..(i - 1) : diff[k] = 0
                     THEN 1 ELSE 0
    IN  BigNorm([i \in DOMAIN a |-> (diff[i] - borrow(i) + LIMB) % LIMB])

\* for a and b of the same length: the highest limb that differs decides
BigCmpLimbs(a, b) ==
    LET differ == {i \in DOMAIN a : a[i] # b[i]}
        high == CHOOSE i \in differ : \A j \in differ : j <= i
    IN  IF differ = {} THEN 0 ELSE IF a[high] < b[high] THEN -1 ELSE 1

\* -1, 0 or 1 as a is below, equal to or above b
BigCmp(a, b) ==
    IF Len(a) < Len(b) THEN -1
    ELSE IF Len(a) > Len(b) THEN 1
    ELSE BigCmpLimbs(a, b)

ShiftLimbs(a, n) == IF a = <<>> THEN <<>> ELSE [i \in 1..n |-> 0] \o a
DropLimbs(a, n) == IF n >= Len(a) THEN <<>> ELSE SubSeq(a, n + 1, Len(a))

\* a * b: the products of limb i of a and limb j of b add up in column
\* i + j - 1, their low halves there and their high halves one column above
BigMul(a, b) ==
    LET product(i, c) == IF (c - i + 1) \in DOMAIN b THEN a[i] * b[c - i + 1] ELSE 0
        low(c) == SumSeq([i \in DOMAIN a |-> product(i, c) % LIMB])
        high(c) == SumSeq([i \in DOMAIN a |-> product(i, c) \div LIMB])
        columns == Len(a) + Len(b)
        column == SubSeq([c \in 1..columns |-> low(c) + high(c - 1)], 1, columns)
    IN  BigAdd([c \in DOMAIN column |-> column[c] % LIMB],
               ShiftLimbs([c \in DOMAIN column |-> column[c] \div LIMB], 1))

\* the limbs of a divided by k from the highest down, rem coming from above
RECURSIVE BigDivSmallLimbs(_, _, _)
BigDivSmallLimbs(a, k, rem) ==
    IF a = <<>> THEN [quot |-> <<>>, rem |-> rem]
    ELSE IF Len(a) = 1
    THEN [quot |-> <<(rem * LIMB + a[1]) \div k>>, rem |-> (rem * LIMB + a[1]) % k]
    ELSE Then(BigDivSmallLimbs(SubSeq(a, Len(a) \div 2 + 1, Len(a)), k, rem),
              LAMBDA high :
                  Then(BigDivSmallLimbs(SubSeq(a, 1, Len(a) \div 2), k, high.rem),
                       LAMBDA low : [quot |-> low.quot \o high.quot, rem |-> low.rem]))

\* quotient and remainder of a by k, for 0 < k < 2 * LIMB
BigDivSmall(a, k) ==
    LET d == BigDivSmallLimbs(a, k, 0) IN [quot |-> BigNorm(d.quot), rem |-> d.rem]

\* a * 2^bits
BigShl(a, bits) ==
    LET up == Pow2(bits % LIMB_BITS)
        limb(i) == IF i \in DOMAIN a THEN a[i] * up ELSE 0
    IN  IF bits = 0 THEN a
        ELSE ShiftLimbs(BigNorm([i \in 1..(Len(a) + 1) |->
                                    (limb(i) % LIMB) + (limb(i - 1) \div LIMB)]),
                        bits \div LIMB_BITS)

\* a \div 2^bits
BigShr(a, bits) ==
    LET kept == DropLimbs(a, bits \div LIMB_BITS)
        down == Pow2(bits % LIMB_BITS)
        limb(i) == IF i \in DOMAIN kept THEN kept[i] ELSE 0
    IN  BigNorm([i \in DOMAIN kept |->
                    (limb(i) \div down) + (limb(i + 1) % down) * (LIMB \div down)])

BitLen(a) == IF a = <<>> THEN 0 ELSE LIMB_BITS * (Len(a) - 1) + BitLenSmall(a[Len(a)])
BigOdd(a) == a # <<>> /\ a[1] % 2 = 1

\* bit j of a, counted from 0 at the least significant
BigBit(a, j) ==
    IF j \div LIMB_BITS >= Len(a) THEN 0
    ELSE (a[j \div LIMB_BITS + 1] \div 2^(j % LIMB_BITS)) % 2

\* the square root works on whole numbers of two halves of 30 bits, high and
\* low: enough for a root below 2^56 and what is left of its radicand
HALF == LIMB * LIMB

\* one digit of the square root: two more bits of a give one more bit of the
\* root, rem being what the bits taken so far leave above root * root
BigSqrtPair(a, sqrt, pair) ==
    LET nextLow == (sqrt.remLow % (HALF \div 4)) * 4
                       + 2 * BigBit(a, 2 * pair + 1) + BigBit(a, 2 * pair)
        nextHigh == sqrt.remHigh * 4 + (sqrt.remLow \div (HALF \div 4))
        trialLow == (sqrt.rootLow % (HALF \div 4)) * 4 + 1
        trialHigh == sqrt.rootHigh * 4 + (sqrt.rootLow \div (HALF \div 4))
        rootLow == (sqrt.rootLow % (HALF \div 2)) * 2
        rootHigh == sqrt.rootHigh * 2 + (sqrt.rootLow \div (HALF \div 2))
        borrow == IF nextLow < trialLow THEN 1 ELSE 0
    IN  IF nextHigh > trialHigh \/ (nextHigh = trialHigh /\ nextLow >= trialLow)
        THEN [rootHigh |-> rootHigh, rootLow |-> rootLow + 1,
              remHigh |-> nextHigh - trialHigh - borrow,
              remLow |-> nextLow - trialLow + borrow * HALF]
        ELSE [rootHigh |-> rootHigh, rootLow |-> rootLow,
              remHigh |-> nextHigh, remLow |-> nextLow]

\* the digits of the pairs high down to low, after those that gave sqrt
RECURSIVE BigSqrtPairs(_, _, _, _)
BigSqrtPairs(a, sqrt, high, low) ==
    IF high < low THEN sqrt
    ELSE IF high = low THEN BigSqrtPair(a, sqrt, high)
    ELSE Then(BigSqrtPairs(a, sqrt, high, (high + low) \div 2 + 1),
              LAMBDA upper : BigSqrtPairs(a, upper, (high + low) \div 2, low))

\* for a < 2^112: the largest root with root * root <= a, and whether
\* root * root = a
BigSqrt(a) ==
    LET sqrt == BigSqrtPairs(a, [rootHigh |-> 0, rootLow |-> 0, remHigh |-> 0, remLow |-> 0],
                             BitLen(a) \div 2, 0)
    IN  [root |-> BigNorm(<<sqrt.rootLow % LIMB, sqrt.rootLow \div LIMB,
                            sqrt.rootHigh % LIMB, sqrt.rootHigh \div LIMB>>),
         exact |-> sqrt.remHigh = 0 /\ sqrt.remLow = 0]

\* round to nearest, ties to even: the mantissa of at most 53 bits (or 2^53)
\* nearest to a * 2^(-shift); inexact tells that a itself was cut off
RoundToMantissa(a, inexact) ==
    LET shift == BitLen(a) - MANTISSA_BITS
        \* the bits cut off are half a unit of q or more, and more than half
        half == BigBit(a, shift - 1) = 1
        below == shift - 1
        more == \/ inexact
                \/ \E i \in 1..(below \div LIMB_BITS) : a[i] # 0
                \/ Limb(a, below \div LIMB_BITS + 1) % Pow2(below % LIMB_BITS) # 0
        Rounded(q) ==
            [m |-> IF half /\ (more \/ BigOdd(q)) THEN BigAdd(q, <<1>>) ELSE q,
             shift |-> shift]
    IN  IF shift <= 0 THEN [m |-> a, shift |-> 0]
        ELSE Then(BigShr(a, shift), Rounded)

Double(neg, m, e) == [neg |-> neg, m |-> m, e |-> e]

DoubleRounded(neg, a, e, inexact) ==
    Then(a, LAMBDA exact : LET r == RoundToMantissa(exact, inexact)
                           IN  Double(neg, r.m, e + r.shift))

DoubleOfInt(k) == Double(k < 0, BigOfNat(IF k < 0 THEN -k ELSE k), 0)

\* x + y
DoubleAdd(x, y) ==
    IF x.m = <<>> THEN y
    ELSE IF y.m = <<>> THEN x
    ELSE LET e == IF x.e < y.e THEN x.e ELSE y.e
             xm == BigShl(x.m, x.e - e)
             ym == BigShl(y.m, y.e - e)
             c == BigCmp(xm, ym)
         IN  IF x.neg = y.neg THEN DoubleRounded(x.neg, BigAdd(xm, ym), e, FALSE)
             ELSE IF c = 0 THEN Double(FALSE, <<>>, 0)
             ELSE IF c > 0 THEN DoubleRounded(x.neg, BigSub(xm, ym), e, FALSE)
             ELSE DoubleRounded(y.neg, BigSub(ym, xm), e, FALSE)

\* x - y
DoubleSub(x, y) == DoubleAdd(x, [y EXCEPT !.neg = ~y.neg])

\* x * y
DoubleMul(x, y) == DoubleRounded(x.neg # y.neg, BigMul(x.m, y.m), x.e + y.e, FALSE)

\* limbs added below the dividend: the quotient keeps more than 53 bits
DIV_LIMBS == (MANTISSA_BITS + 2 * LIMB_BITS - 1) \div LIMB_BITS

\* x / n, for a whole number 0 < n < 128
DoubleDivInt(x, n) ==
    IF x.m = <<>> THEN x
    ELSE LET d == BigDivSmall(ShiftLimbs(x.m, DIV_LIMBS), n)
         IN  DoubleRounded(x.neg, d.quot, x.e - DIV_LIMBS * LIMB_BITS, d.rem # 0)

\* bits of the radicand: the root keeps more than 53 bits
SQRT_BITS == 2 * MANTISSA_BITS + 4

\* Math.sqrt(x), for x >= 0
DoubleSqrt(x) ==
    IF x.m = <<>> THEN x
    ELSE LET k0 == SQRT_BITS - BitLen(x.m)
             k == IF (x.e - k0) % 2 = 0 THEN k0 ELSE k0 + 1
             sqrt == BigSqrt(BigShl(x.m, k))
         IN  DoubleRounded(FALSE, sqrt.root, (x.e - k) \div 2, ~sqrt.exact)

\* x > y
DoubleGt(x, y) == LET d == DoubleSub(x, y) IN d.m # <<>> /\ ~d.neg

(***************************************************************************)
(* Daily logs as getLogsInRange returns them                               *)
(***************************************************************************)
\* the ids of SYMPTOMS in the order of String comparison, which is the
\* order Array.prototype.sort() puts two ids in
SymptomIdOrder ==
    << "anxiety", "bloating", "brain_fog", "depression", "fatigue", "headaches",
       "hot_flashes", "irritability", "joint_pain", "low_libido", "mood_swings",
       "muscle_aches", "night_sweats", "sleep_disturbances", "vaginal_dryness",
       "weight_changes" >>

SymptomIds == Range(SymptomIdOrder)

Rank(id) == CHOOSE i \in DOMAIN SymptomIdOrder : SymptomIdOrder[i] = id

\* a row of the symptoms table joined to its log
Symptom(id) == [symptom_id |-> id, severity |-> 3]

SymptomsOf(ids) == [i \in DOMAIN ids |-> Symptom(ids[i])]

\* a daily log; a field the user did not record is Null, and symptoms is
\* Null or Some(array)
Log(date, logSymptoms) ==
    [date |-> date, symptoms |-> logSymptoms,
     mood_overall |-> Null, mood_anxiety |-> Null, mood_energy |-> Null,
     sleep_hours |-> Null, sleep_quality |-> Null]

\* log.symptoms?.length || 0
SymptomsLength(log) == IF log.symptoms = Null THEN 0 ELSE Len(log.symptoms[1])

\* date i is given to the i-th log: getLogsInRange orders by date ascending
Dated(ls) == [i \in DOMAIN ls |-> [ls[i] EXCEPT !.date = i]]

(***************************************************************************)
(* getSymptomCorrelations(logs)                                            *)
(***************************************************************************)
MIN_CO_OCCURRENCES == 3
MIN_SYMPTOM_TOTAL == 3
CORRELATION_THRESHOLD == Frac(2, 5)      \* 0.4
MAX_CORRELATIONS == 10

EmptyCounts == [id \in {} |-> 0]

\* a string built from pieces: join(sep) puts sep between the pieces
Join(pieces, sep) ==
    IF pieces = <<>> THEN <<>>
    ELSE Concat([i \in 1..(2 * Len(pieces) - 1) |->
                    IF i % 2 = 1 THEN <<pieces[(i + 1) \div 2]>> ELSE <<sep>>])

\* split(sep): the pieces between the occurrences of sep
RECURSIVE Split(_, _)
Split(str, sep) ==
    IF \A i \in DOMAIN str : str[i] # sep THEN <<str>>
    ELSE LET k == CHOOSE i \in DOMAIN str :
                      str[i] = sep /\ \A j \in 1..(i - 1) : str[j] # sep
         IN  <<SubSeq(str, 1, k - 1)>> \o Split(SubSeq(str, k + 1, Len(str)), sep)

\* [a, b].sort()
SortPair(a, b) == IF Rank(b) < Rank(a) THEN <<b, a>> ELSE <<a, b>>

\* [symptomIds[i], symptomIds[j]].sort().join('|')
PairKey(a, b) == Join(SortPair(a, b), "|")

\* const [s1, s2] = pair.split('|')
PairOfKey(key) ==
    LET parts == Split(key, "|") IN <<parts[1][1], parts[2][1]>>

\* if (!log.symptoms || log.symptoms.length < 2) continue;
SkippedLogSingles(log) == log.symptoms = Null \/ Len(log.symptoms[1]) < 1
SkippedLog(log) == log.symptoms = Null \/ Len(log.symptoms[1]) < 2

\* symptomCounts[id] = (symptomCounts[id] || 0) + 1, for each id of one log:
\* the table after the turn for the last id, which takes that of the turns before
RECURSIVE CountSymptomIdsOnce(_, _)
CountSymptomIdsOnce(symptomIds, counts) ==
    IF symptomIds = <<>> THEN counts
    ELSE LET before == CountSymptomIdsOnce(SubSeq(symptomIds, 1, Len(symptomIds) - 1), counts)
             id == symptomIds[Len(symptomIds)]
         IN  IF id \in DOMAIN before THEN before ELSE before @@ (id :> 1)
RECURSIVE CountSymptomIds(_, _)
CountSymptomIds(symptomIds, counts) ==
    IF symptomIds = <<>> THEN counts
    ELSE LET before == CountSymptomIds(SubSeq(symptomIds, 1, Len(symptomIds) - 1), counts)
             id == symptomIds[Len(symptomIds)]
         IN  IF id \in DOMAIN before THEN [before EXCEPT ![id] = @ + 1]
             ELSE before @@ (id :> 1)

\* pairCounts[pair] = (pairCounts[pair] || 0) + 1; a new key goes last
BumpPair(counts, key) ==
    IF \E k \in DOMAIN counts : counts[k].pair = key
    THEN LET k == CHOOSE k \in DOMAIN counts : counts[k].pair = key
         IN  [counts EXCEPT ![k].count = @ + 1]
    ELSE Append(counts, [pair |-> key, count |-> 1])

\* for (i ...) for (j = i + 1 ...) of one log: the keys in the order of the turns
PairKeys(symptomIds) ==
    Concat([i \in 1..(Len(symptomIds) - 1) |->
               [k \in 1..(Len(symptomIds) - i) |-> PairKey(symptomIds[i], symptomIds[i + k])]])

\* the table after the turns for the keys, the first half of them taken
\* before the others
RECURSIVE BumpPairs(_, _)
BumpPairs(keys, counts) ==
    IF keys = <<>> THEN counts
    ELSE IF Len(keys) = 1 THEN BumpPair(counts, keys[1])
    ELSE Then(BumpPairs(SubSeq(keys, 1, Len(keys) \div 2), counts),
              LAMBDA half : BumpPairs(SubSeq(keys, Len(keys) \div 2 + 1, Len(keys)), half))

CountPairs(symptomIds, counts) == BumpPairs(PairKeys(symptomIds), counts)

\* one turn of the loop over the logs
CountLog(log, acc) ==
    IF SkippedLog(log) THEN acc
    ELSE LET symptomIds == [i \in DOMAIN log.symptoms[1] |-> log.symptoms[1][i].symptom_id]
         IN  [acc EXCEPT
                !.symptomCounts = CountSymptomIds(symptomIds, @),
                !.pairCounts = CountPairs(symptomIds, @)]

\* the loop over the logs: both tables after it, the turns for the first
\* half of the logs taken before the turns for the others
RECURSIVE CountCoOccurrences(_, _)
CountCoOccurrences(ls, acc) ==
    IF ls = <<>> THEN acc
    ELSE IF Len(ls) = 1 THEN CountLog(ls[1], acc)
    ELSE Then(CountCoOccurrences(SubSeq(ls, 1, Len(ls) \div 2), acc),
              LAMBDA half : CountCoOccurrences(SubSeq(ls, Len(ls) \div 2 + 1, Len(ls)), half))

\* if (count < 3) continue; ... if (total1 < 3 || total2 < 3) continue;
PassesFloor(count, total1, total2) ==
    ~(count < MIN_CO_OCCURRENCES) /\ ~(total1 < MIN_SYMPTOM_TOTAL \/ total2 < MIN_SYMPTOM_TOTAL)

\* const correlation = count / Math.min(total1, total2)
CoOccurrenceRatioFirst(count, total1, total2) == Frac(count, total1)
CoOccurrenceRatio(count, total1, total2) == Frac(count, Min(total1, total2))

\* if (correlation > 0.4)
AboveThresholdAlways(correlation) == TRUE
AboveThreshold(correlation) == FracGt(correlation, CORRELATION_THRESHOLD)

\* the loop over Object.entries(pairCounts)
RECURSIVE ScorePairs(_, _)
ScorePairs(entries, totals) ==
    IF entries = <<>> THEN <<>>
    ELSE LET pair == Head(entries).pair
             count == Head(entries).count
             s1 == PairOfKey(pair)[1]
             s2 == PairOfKey(pair)[2]
             total1 == totals[s1]
             total2 == totals[s2]
             correlation == CoOccurrenceRatio(count, total1, total2)
             rest == ScorePairs(Tail(entries), totals)
         IN  IF PassesFloor(count, total1, total2) /\ AboveThreshold(correlation)
             THEN <<[symptom1 |-> s1, symptom2 |-> s2,
                     correlation |-> correlation, coOccurrences |-> count]>> \o rest
             ELSE rest

\* correlations.sort((a, b) => b.correlation - a.correlation): a stable sort,
\* an element goes after those it does not outrank
InsertByCorrelation(sorted, c) ==
    LET before == {k \in 0..Len(sorted) :
                     \A m \in 1..k : ~FracGt(c.correlation, sorted[m].correlation)}
        k == CHOOSE k \in before : \A m \in before : m <= k
    IN  SubSeq(sorted, 1, k) \o <<c>> \o SubSeq(sorted, k + 1, Len(sorted))

RECURSIVE SortByCorrelationFrom(_, _)
SortByCorrelationFrom(unsorted, sorted) ==
    IF unsorted = <<>> THEN sorted
    ELSE SortByCorrelationFrom(Tail(unsorted), InsertByCorrelation(sorted, Head(unsorted)))

Unsorted(cs) == cs
SortByCorrelation(cs) == SortByCorrelationFrom(cs, <<>>)

\* correlations.slice(0, 10)
SliceTop(cs) == SubSeq(cs, 1, Min(MAX_CORRELATIONS, Len(cs)))

\* const symptomCounts = {}; const pairCounts = {}; on every call
KeptCounts == [symptomCounts |-> symptomCounts, pairCounts |-> pairCounts]
NewCounts == [symptomCounts |-> EmptyCounts, pairCounts |-> <<>>]

getSymptomCorrelations(ls) ==
    LET counted == CountCoOccurrences(ls, NewCounts)
    IN  SliceTop(SortByCorrelation(ScorePairs(counted.pairCounts, counted.symptomCounts)))

CallGetSymptomCorrelations ==
    \E counted \in {CountCoOccurrences(logs, NewCounts)} :
    \E sorted \in {SortByCorrelation(ScorePairs(counted.pairCounts, counted.symptomCounts))} :
        /\ symptomCounts' = counted.symptomCounts
        /\ pairCounts' = counted.pairCounts
        /\ correlations' = sorted
        /\ correlationData' = SliceTop(sorted)
        /\ returned' = returned \cup {"getSymptomCorrelations"}
        /\ UNCHANGED thrown
        /\ UNCHANGED <<logs, utcOffsetHours, cycleStatsArg, patterns, trends>>
        /\ UNCHANGED databaseVars
        /\ UNCHANGED <<connectionVars, storeVars>>

(***************************************************************************)
(* Inputs of getSymptomCorrelations: blocks of equal logs, the blocks in   *)
(* one order or the other.                                                 *)
(***************************************************************************)
MaxPairLogs == 3      \* logs with anxiety and bloating
MaxOtherLogs == 5     \* logs with anxiety and fatigue; logs with fatigue and bloating
MaxWideLogs == 3      \* logs with six symptoms
MaxSparseLogs == 2    \* logs with one symptom

WideSymptoms == <<"hot_flashes", "headaches", "fatigue", "bloating", "anxiety", "brain_fog">>

CorrLogs(ka, kb, kc, kw, k1, kn, rev) ==
    LET blocks == Concat(<<
            Copies(ka, Log(0, Some(SymptomsOf(<<"bloating", "anxiety">>)))),
            Copies(k1, Log(0, Some(SymptomsOf(<<"anxiety">>)))),
            Copies(kb, Log(0, Some(SymptomsOf(<<"anxiety", "fatigue">>)))),
            Copies(kn, Log(0, Null)),
            Copies(kc, Log(0, Some(SymptomsOf(<<"fatigue", "bloating">>)))),
            Copies(kn, Log(0, Some(<<>>))),
            Copies(kw, Log(0, Some(SymptomsOf(WideSymptoms)))) >>)
    IN  Dated(IF rev THEN Reverse(blocks) ELSE blocks)

CorrInputs ==
    { CorrLogs(ka, kb, kc, kw, k1, kn, rev) :
        ka \in 0..MaxPairLogs, kb \in 0..MaxOtherLogs, kc \in 0..MaxOtherLogs,
        kw \in {0, MaxWideLogs}, k1 \in 0..MaxSparseLogs, kn \in 0..1,
        rev \in BOOLEAN }

\* InsightsScreen before loadData has run
AnalysisIdle ==
    /\ patterns = Null
    /\ symptomCounts = EmptyCounts
    /\ pairCounts = <<>>
    /\ correlations = <<>>
    /\ correlationData = <<>>
    /\ trends = Null

\* the connection after initDatabase at the start of the application
ConnectionOpen ==
    /\ db = Some(1)
    /\ isInitializing = FALSE
    /\ opened = 1
    /\ callers = <<>>

\* the log tables on a new installation
StoreEmpty ==
    /\ daily_logs = {}
    /\ symptoms = {}
    /\ medication_logs = {}
    /\ sqlite_sequence = [daily_logs |-> 0, symptoms |-> 0, medication_logs |-> 0]
    /\ now = 0

\* the database after initDatabase on a new installation
DatabaseEmpty ==
    /\ cycle_periods = {}
    /\ lastInsertRowId = 0
    /\ periods = <<>>
    /\ cycleStats = Null
    /\ calls = <<>>

InitCorr ==
    /\ logs \in CorrInputs
    /\ utcOffsetHours = 0
    /\ cycleStatsArg = Null
    /\ AnalysisIdle
    /\ DatabaseEmpty
    /\ ConnectionOpen
    /\ StoreEmpty
    /\ returned = {}
    /\ thrown = {}

NextCorr == CallGetSymptomCorrelations

SpecCorr == InitCorr /\ [][NextCorr]_vars

(***************************************************************************)
(* What the logs say, counted over sets of logs                            *)
(***************************************************************************)
IdsOfLog(log) ==
    IF log.symptoms = Null THEN {}
    ELSE {log.symptoms[1][i].symptom_id : i \in DOMAIN log.symptoms[1]}

\* the logs that contain the symptom
LogsWith(ls, a) == {i \in DOMAIN ls : a \in IdsOfLog(ls[i])}

\* the logs that contain both symptoms
LogsWithBoth(ls, a, b) == LogsWith(ls, a) \cap LogsWith(ls, b)

\* the logs that contain the symptom and at least two symptoms
PairedLogsWith(ls, a) == {i \in LogsWith(ls, a) : SymptomsLength(ls[i]) >= 2}

UsedIds(ls) == UNION {IdsOfLog(ls[i]) : i \in DOMAIN ls}

PairRatio(ls, a, b) ==
    Frac(Cardinality(LogsWithBoth(ls, a, b)),
         Min(Cardinality(PairedLogsWith(ls, a)), Cardinality(PairedLogsWith(ls, b))))

\* the unordered pairs that pass the floor and the threshold
QualifyingPairs(ls) ==
    { pr \in SUBSET UsedIds(ls) :
        /\ Cardinality(pr) = 2
        /\ \E a \in pr : \E b \in pr \ {a} :
             /\ Cardinality(LogsWithBoth(ls, a, b)) >= 3
             /\ FracGt(PairRatio(ls, a, b), Frac(2, 5)) }

PairOfRecord(r) == {r.symptom1, r.symptom2}

CorrelationsRun == "getSymptomCorrelations" \in returned

\* C4: every returned record is of two symptoms that are together in at
\* least 3 logs, each of them in at least 3 logs, with correlation > 0.4
C4_FloorAndThreshold ==
    CorrelationsRun =>
        \A k \in DOMAIN correlationData :
            LET r == correlationData[k] IN
            /\ r.symptom1 # r.symptom2
            /\ Cardinality(LogsWithBoth(logs, r.symptom1, r.symptom2)) >= 3
            /\ r.coOccurrences >= 3
            /\ Cardinality(LogsWith(logs, r.symptom1)) >= 3
            /\ Cardinality(LogsWith(logs, r.symptom2)) >= 3
            /\ symptomCounts[r.symptom1] >= 3
            /\ symptomCounts[r.symptom2] >= 3
            /\ FracGt(r.correlation, Frac(2, 5))

\* a pair together in 3 logs or more is left out for its ratio, another is returned
C4_Witness ==
    /\ CorrelationsRun
    /\ Len(correlationData) >= 1
    /\ Len(correlationData) < MAX_CORRELATIONS
    /\ \E a \in UsedIds(logs) : \E b \in UsedIds(logs) \ {a} :
          /\ Cardinality(LogsWithBoth(logs, a, b)) >= 3
          /\ \A k \in DOMAIN correlationData : PairOfRecord(correlationData[k]) # {a, b}

\* C5: at most 10 records, in non-increasing order of correlation, and no
\* qualifying pair that is left out has a larger correlation than a returned one
C5_TopTenDescending ==
    CorrelationsRun =>
        /\ Len(correlationData) <= 10
        /\ \A k \in 1..(Len(correlationData) - 1) :
              FracLe(correlationData[k + 1].correlation, correlationData[k].correlation)
        /\ \A pr \in QualifyingPairs(logs) :
              \/ \E k \in DOMAIN correlationData : PairOfRecord(correlationData[k]) = pr
              \/ \A k \in DOMAIN correlationData :
                    \E a \in pr : \E b \in pr \ {a} :
                        FracLe(PairRatio(logs, a, b), correlationData[k].correlation)
        /\ \A k \in DOMAIN correlationData :
              PairOfRecord(correlationData[k]) \in QualifyingPairs(logs)
        /\ Len(correlationData) = Min(10, Cardinality(QualifyingPairs(logs)))

\* more than 10 pairs qualify and one that is left out has a smaller correlation
C5_Witness ==
    /\ CorrelationsRun
    /\ Len(correlationData) = 10
    /\ \E pr \in QualifyingPairs(logs) :
          /\ \A k \in DOMAIN correlationData : PairOfRecord(correlationData[k]) # pr
          /\ \E a \in pr : \E b \in pr \ {a} :
                FracGt(correlationData[10].correlation, PairRatio(logs, a, b))

\* C6: a returned correlation is the number of logs with both symptoms over
\* the smaller of the two totals, it is in (0, 1], and two symptoms that are
\* together in exactly 3 logs and in no other log get exactly 1
C6_RatioAndRange ==
    CorrelationsRun =>
        /\ \A k \in DOMAIN correlationData :
              LET r == correlationData[k] IN
              /\ r.correlation.num = Cardinality(LogsWithBoth(logs, r.symptom1, r.symptom2))
              /\ r.correlation.den = Min(symptomCounts[r.symptom1], symptomCounts[r.symptom2])
              /\ r.correlation.num > 0
              /\ r.correlation.den > 0
              /\ r.correlation.num <= r.correlation.den
        /\ \A a \in UsedIds(logs) : \A b \in UsedIds(logs) \ {a} :
              ( /\ Cardinality(LogsWithBoth(logs, a, b)) = 3
                /\ LogsWith(logs, a) = LogsWithBoth(logs, a, b)
                /\ LogsWith(logs, b) = LogsWithBoth(logs, a, b) )
              => /\ \E k \in DOMAIN correlations :
                       /\ PairOfRecord(correlations[k]) = {a, b}
                       /\ correlations[k].correlation.num = correlations[k].correlation.den
                 /\ \A k \in DOMAIN correlationData :
                       PairOfRecord(correlationData[k]) = {a, b}
                       => correlationData[k].correlation.num = correlationData[k].correlation.den

\* two symptoms that are together in exactly 3 of 5 logs or more, and in no
\* other log, are returned with correlation 3/3
C6_Witness ==
    /\ CorrelationsRun
    /\ \E k \in DOMAIN correlationData :
          LET r == correlationData[k] IN
          /\ Cardinality(LogsWithBoth(logs, r.symptom1, r.symptom2)) = 3
          /\ Cardinality(LogsWith(logs, r.symptom1)) = 3
          /\ Cardinality(LogsWith(logs, r.symptom2)) = 3
          /\ Len(logs) >= 5
          /\ r.correlation = Frac(3, 3)

\* C7 as stated: the total of a symptom is the number of logs that contain it
C7_TotalIsLogsWithSymptom ==
    CorrelationsRun =>
        \A id \in DOMAIN symptomCounts :
            symptomCounts[id] = Cardinality(LogsWith(logs, id))

\* C7 amended: the total of a symptom is the number of logs that contain it
\* together with at least one other symptom; the symptoms of no such log have
\* no total
C7_TotalIsPairedLogsWithSymptom ==
    CorrelationsRun =>
        /\ DOMAIN symptomCounts = {id \in UsedIds(logs) : PairedLogsWith(logs, id) # {}}
        /\ \A id \in DOMAIN symptomCounts :
              symptomCounts[id] = Cardinality(PairedLogsWith(logs, id))

\* a returned symptom is also in a log of its own, which its total leaves out
C7_Witness ==
    /\ CorrelationsRun
    /\ \E k \in DOMAIN correlationData :
          LET id == correlationData[k].symptom1 IN
          /\ Cardinality(LogsWith(logs, id)) > Cardinality(PairedLogsWith(logs, id))
          /\ symptomCounts[id] = Cardinality(PairedLogsWith(logs, id))

\* the logs with 2 symptoms or more
DenseLogs(ls) == SelectSeq(ls, LAMBDA l : SymptomsLength(l) >= 2)

\* C8: the result is the result for the logs with 2 symptoms or more alone:
\* the logs with fewer symptoms, or without a symptoms array, change nothing
C8_SparseLogsContributeNothing ==
    CorrelationsRun =>
        /\ correlationData = getSymptomCorrelations(DenseLogs(logs))
        /\ \A i \in DOMAIN logs :
              SymptomsLength(logs[i]) < 2 =>
                 correlationData =
                    getSymptomCorrelations(SubSeq(logs, 1, i - 1) \o SubSeq(logs, i + 1, Len(logs)))

\* the logs hold a log of one returned symptom alone and a log without a
\* symptoms array
C8_Witness ==
    /\ CorrelationsRun
    /\ Len(correlationData) >= 1
    /\ \E i \in DOMAIN logs : logs[i].symptoms = Null
    /\ \E i \in DOMAIN logs :
          /\ SymptomsLength(logs[i]) = 1
          /\ \E k \in DOMAIN correlationData :
                IdsOfLog(logs[i]) \subseteq PairOfRecord(correlationData[k])
    /\ DenseLogs(logs) # logs

(***************************************************************************)
(* getTrends(logs)                                                         *)
(***************************************************************************)
\* 1000 * 60 * 60 * 24 ms; every instant here is a whole number of hours, so
\* time is counted in hours
HOURS_PER_DAY == 24

\* new Date('YYYY-MM-DD'): that day's UTC midnight
DateHours(date) == date * HOURS_PER_DAY

\* a field that JavaScript takes for true: neither null nor 0
Truthy(field) == field # Null /\ field[1] # 0

MIN_TREND_LOGS == 7

\* if (logs.length < 7) return null;
TooFewForTrendsNever(ls) == FALSE
TooFewForTrends(ls) == Len(ls) < MIN_TREND_LOGS

\* [...logs].sort((a, b) => new Date(a.date) - new Date(b.date)): a stable
\* sort, a log goes after the logs that are not later than it
InsertByDate(sorted, log) ==
    LET before == {k \in 0..Len(sorted) :
                     \A m \in 1..k : DateHours(sorted[m].date) - DateHours(log.date) <= 0}
        k == CHOOSE k \in before : \A m \in before : m <= k
    IN  SubSeq(sorted, 1, k) \o <<log>> \o SubSeq(sorted, k + 1, Len(sorted))

RECURSIVE SortByDateFrom(_, _)
SortByDateFrom(unsorted, sorted) ==
    IF unsorted = <<>> THEN sorted
    ELSE SortByDateFrom(Tail(unsorted), InsertByDate(sorted, Head(unsorted)))

SortByDateNone(ls) == ls
SortByDate(ls) == SortByDateFrom(ls, <<>>)

\* Math.floor(sortedLogs.length / 2)
Midpoint(sortedLogs) == Len(sortedLogs) \div 2

\* half.filter((l) => l[field]).reduce((sum, l) => sum + l[field], 0)
FieldSum(half, field) ==
    SumSeq([i \in DOMAIN half |-> IF Truthy(half[i][field]) THEN half[i][field][1] ELSE 0])

\* half.filter((l) => l[field]).length
FieldCountAll(half, field) == Len(half)
FieldCount(half, field) == Cardinality({i \in DOMAIN half : Truthy(half[i][field])})

\* second / secondCount - first / firstCount, or null
FieldTrend(firstHalf, secondHalf, field) ==
    LET first == FieldSum(firstHalf, field)
        firstCount == FieldCount(firstHalf, field)
        second == FieldSum(secondHalf, field)
        secondCount == FieldCount(secondHalf, field)
    IN  IF firstCount > 0 /\ secondCount > 0
        THEN Some(Frac(second * firstCount - first * secondCount, secondCount * firstCount))
        ELSE Null

\* half.reduce((sum, l) => sum + (l.symptoms?.length || 0), 0)
SymptomSum(half) == SumSeq([i \in DOMAIN half |-> SymptomsLength(half[i])])

\* secondSymptoms / secondHalf.length - firstSymptoms / firstHalf.length; a
\* denominator of 0 stands for NaN
SymptomTrendOfFirst(firstHalf, secondHalf) ==
    Frac(SymptomSum(secondHalf) * Len(firstHalf) - SymptomSum(firstHalf) * Len(firstHalf),
         Len(firstHalf) * Len(firstHalf))
SymptomTrend(firstHalf, secondHalf) ==
    Frac(SymptomSum(secondHalf) * Len(firstHalf) - SymptomSum(firstHalf) * Len(secondHalf),
         Len(secondHalf) * Len(firstHalf))

\* sortedLogs[0].date is a TypeError when sortedLogs is empty
getTrendsThrows(ls) == ~TooFewForTrends(ls) /\ Len(ls) = 0

getTrends(ls) ==
    IF TooFewForTrends(ls) THEN Null
    ELSE LET sortedLogs == SortByDate(ls)
             midpoint == Midpoint(sortedLogs)
             firstHalf == SubSeq(sortedLogs, 1, midpoint)
             secondHalf == SubSeq(sortedLogs, midpoint + 1, Len(sortedLogs))
         IN  Some([moodTrend |-> FieldTrend(firstHalf, secondHalf, "mood_overall"),
                   energyTrend |-> FieldTrend(firstHalf, secondHalf, "mood_energy"),
                   symptomTrend |-> SymptomTrend(firstHalf, secondHalf),
                   periodAnalyzed |->
                       [start |-> sortedLogs[1].date,
                        end |-> sortedLogs[Len(sortedLogs)].date,
                        days |-> Len(sortedLogs)]])

CallGetTrends ==
    /\ IF getTrendsThrows(logs)
       THEN /\ thrown' = thrown \cup {"getTrends"}
            /\ UNCHANGED <<trends, returned>>
       ELSE /\ trends' = getTrends(logs)
            /\ returned' = returned \cup {"getTrends"}
            /\ UNCHANGED thrown
    /\ UNCHANGED <<logs, utcOffsetHours, cycleStatsArg, patterns, symptomCounts,
                   pairCounts, correlations, correlationData>>
    /\ UNCHANGED databaseVars
    /\ UNCHANGED <<connectionVars, storeVars>>

(***************************************************************************)
(* Inputs of getTrends: n logs, the earlier half of one kind and the later *)
(* half of another, one log of a third kind among them, in ascending or    *)
(* descending order of date.                                               *)
(***************************************************************************)
MaxTrendLogs == 8

TrendKinds ==
    << [Log(0, Some(<<>>)) EXCEPT !.mood_overall = Some(3)],
       [Log(0, Some(SymptomsOf(<<"fatigue", "anxiety">>)))
            EXCEPT !.mood_overall = Some(8), !.mood_energy = Some(4)],
       [Log(0, Null) EXCEPT !.mood_energy = Some(7)],
       Log(0, Some(SymptomsOf(<<"headaches">>))) >>

\* the orders the logs are supplied in: by date ascending, descending, or the
\* even days ascending and then the odd days descending
TrendOrders == {"ascending", "descending", "mixed"}

TrendLogs(n, a, b, p, c, order) ==
    [i \in 1..n |->
        [ (IF i = p THEN TrendKinds[c]
           ELSE IF i <= n \div 2 THEN TrendKinds[a] ELSE TrendKinds[b])
          EXCEPT !.date = IF order = "descending" THEN n + 1 - i
                          ELSE IF order = "ascending" THEN i
                          ELSE IF i <= n \div 2 THEN 2 * i ELSE 2 * (n - i) + 1 ]]

TrendInputs ==
    { TrendLogs(n, a, b, p, c, order) :
        n \in 0..MaxTrendLogs, a \in DOMAIN TrendKinds, b \in DOMAIN TrendKinds,
        p \in 0..MaxTrendLogs, c \in DOMAIN TrendKinds, order \in TrendOrders }

InitTrends ==
    /\ logs \in TrendInputs
    /\ utcOffsetHours = 0
    /\ cycleStatsArg = Null
    /\ AnalysisIdle
    /\ DatabaseEmpty
    /\ ConnectionOpen
    /\ StoreEmpty
    /\ returned = {}
    /\ thrown = {}

NextTrends == CallGetTrends

SpecTrends == InitTrends /\ [][NextTrends]_vars

TrendsCalled == "getTrends" \in returned \cup thrown

\* C2: getTrends returns null exactly when it is given fewer than 7 logs; given
\* 7 or more it returns a trend summary, and it never throws
C2_NullIffFewerThanSeven ==
    TrendsCalled =>
        /\ "getTrends" \notin thrown
        /\ trends = Null <=> Len(logs) < 7
        /\ Len(logs) >= 7 =>
              /\ DOMAIN trends[1] = {"moodTrend", "energyTrend", "symptomTrend", "periodAnalyzed"}
              /\ trends[1].symptomTrend.den > 0
              /\ trends[1].periodAnalyzed.days = Len(logs)

\* getTrends has returned a summary with a mood trend for 7 logs
C2_Witness ==
    /\ "getTrends" \in returned
    /\ Len(logs) = 7
    /\ trends # Null
    /\ trends[1].moodTrend # Null
    /\ trends[1].periodAnalyzed.days = 7

(***************************************************************************)
(* analyzePatterns(logs, cycleStats)                                       *)
(***************************************************************************)
\* Array.prototype.sort with a comparator under which Less(a, b) says that a
\* goes before b: the sort is stable, so an element also goes after the
\* earlier elements that compare equal to it
StableSort(s, Less(_, _)) ==
    LET elements == SubSeq(s, 1, Len(s))
        pos == [i \in DOMAIN elements |->
                   1 + Cardinality({j \in DOMAIN elements :
                           \/ Less(elements[j], elements[i])
                           \/ ~Less(elements[i], elements[j]) /\ j < i})]
        place == SubSeq(pos, 1, Len(pos))
    IN  [k \in DOMAIN elements |-> elements[CHOOSE i \in DOMAIN elements : place[i] = k]]

Filter(s, Keep(_)) == SelectSeq(s, Keep)

dayNames == <<"Sunday", "Monday", "Tuesday", "Wednesday", "Thursday", "Friday", "Saturday">>

EPOCH_WEEKDAY == 4      \* 1970-01-01, day 0, was a Thursday

\* new Date(log.date).getDay(): the weekday, 0 for Sunday, of the local day
\* that holds the UTC midnight of the date
GetDay(date) ==
    (((DateHours(date) + utcOffsetHours) \div HOURS_PER_DAY) + EPOCH_WEEKDAY) % 7

\* symptomsByDay[d].count after the loop over the logs
SymptomsByDayCount(ls, d) ==
    SumSeq([i \in DOMAIN ls |->
              IF GetDay(ls[i].date) = d /\ ls[i].symptoms # Null /\ Len(ls[i].symptoms[1]) > 0
              THEN Len(ls[i].symptoms[1]) ELSE 0])

\* dayCounts[0].count > dayCounts[6].count * 1.5 && dayCounts[0].count > 3
PeakDayStandsOut(most, least) == 2 * most > 3 * least /\ most > 3

analyzeDayOfWeekPatterns(ls) ==
    LET dayCounts == StableSort([k \in 1..7 |-> [day |-> k - 1, count |-> SymptomsByDayCount(ls, k - 1)]],
                                LAMBDA a, b : b.count - a.count < 0)
    IN  IF PeakDayStandsOut(dayCounts[1].count, dayCounts[7].count)
        THEN << [icon |-> "calendar-week",
                 text |-> <<"You tend to experience more symptoms on ",
                            dayNames[dayCounts[1].day + 1], "s.">>] >>
        ELSE <<>>

\* sleep_hours is kept in half hours, the step of the sleep slider
HALF_HOURS_PER_HOUR == 2
MIN_SLEEP_LOGS == 5
MIN_GROUP_LOGS == 3
GOOD_SLEEP_QUALITY == 4
POOR_SLEEP_QUALITY == 2
LOW_SLEEP_HOURS == 6

HasFatigue(log) ==
    log.symptoms # Null /\ \E i \in DOMAIN log.symptoms[1] : log.symptoms[1][i].symptom_id = "fatigue"

\* 1.3 is the double 5854679515581645 * 2^-52
ONE_POINT_THREE == Double(FALSE, <<19661, 6553, 13107, 166>>, -52)

analyzeSleepCorrelation(ls) ==
    LET logsWithSleep == Filter(ls, LAMBDA l : Truthy(l.sleep_hours) /\ Truthy(l.sleep_quality))
        goodSleepLogs == Filter(logsWithSleep, LAMBDA l : l.sleep_quality[1] >= GOOD_SLEEP_QUALITY)
        poorSleepLogs == Filter(logsWithSleep, LAMBDA l : l.sleep_quality[1] <= POOR_SLEEP_QUALITY)
        lowSleepLogs == Filter(logsWithSleep,
                               LAMBDA l : l.sleep_hours[1] < LOW_SLEEP_HOURS * HALF_HOURS_PER_HOUR)
        fatigueAfterLowSleep == Filter(lowSleepLogs, HasFatigue)
        avgSymptomsGoodSleep ==
            DoubleDivInt(DoubleOfInt(SymptomSum(goodSleepLogs)), Len(goodSleepLogs))
        avgSymptomsPoorSleep ==
            DoubleDivInt(DoubleOfInt(SymptomSum(poorSleepLogs)), Len(poorSleepLogs))
        \* avgSymptomsPoorSleep > avgSymptomsGoodSleep * 1.3
        sleepInsight ==
            IF /\ Len(goodSleepLogs) >= MIN_GROUP_LOGS
               /\ Len(poorSleepLogs) >= MIN_GROUP_LOGS
               /\ DoubleGt(avgSymptomsPoorSleep,
                           DoubleMul(avgSymptomsGoodSleep, ONE_POINT_THREE))
            THEN << [icon |-> "sleep",
                     text |-> <<"Poor sleep appears to be associated with more symptoms. Prioritizing sleep may help.">>] >>
            ELSE <<>>
        \* fatigueAfterLowSleep.length / lowSleepLogs.length > 0.5
        fatigueInsight ==
            IF /\ Len(lowSleepLogs) >= MIN_GROUP_LOGS
               /\ 2 * Len(fatigueAfterLowSleep) > Len(lowSleepLogs)
            THEN << [icon |-> "battery-low",
                     text |-> <<"Fatigue commonly follows nights with less than 6 hours of sleep.">>] >>
            ELSE <<>>
    IN  IF Len(logsWithSleep) < MIN_SLEEP_LOGS THEN <<>>
        ELSE sleepInsight \o fatigueInsight

MIN_MOOD_LOGS == 7
HIGH_ANXIETY == 7

TWO_AND_A_HALF == Double(FALSE, <<5>>, -1)
ONE_AND_A_HALF == Double(FALSE, <<3>>, -1)

\* moodValues.reduce((a, b) => a + b, 0) / moodValues.length
AvgMood(moodValues) == DoubleDivInt(DoubleOfInt(SumSeq(moodValues)), Len(moodValues))

\* sum + Math.pow(m - avgMood, 2); Math.pow(x, 2) is taken as the correctly
\* rounded x * x
AddSquaredDeviation(sum, m, avgMood) ==
    Then(DoubleSub(DoubleOfInt(m), avgMood),
         LAMBDA deviation : Then(DoubleMul(deviation, deviation),
                                 LAMBDA square : DoubleAdd(sum, square)))

\* moodValues.reduce((sum, m) => sum + Math.pow(m - avgMood, 2), sum)
RECURSIVE SquaredDeviations(_, _, _)
SquaredDeviations(moodValues, avgMood, sum) ==
    IF moodValues = <<>> THEN sum
    ELSE IF Len(moodValues) = 1 THEN AddSquaredDeviation(sum, moodValues[1], avgMood)
    ELSE Then(SquaredDeviations(SubSeq(moodValues, 1, Len(moodValues) \div 2), avgMood, sum),
              LAMBDA half : SquaredDeviations(SubSeq(moodValues, Len(moodValues) \div 2 + 1,
                                                     Len(moodValues)), avgMood, half))

Variance(moodValues) ==
    Then(AvgMood(moodValues),
         LAMBDA avgMood : Then(SquaredDeviations(moodValues, avgMood, DoubleOfInt(0)),
                               LAMBDA sum : DoubleDivInt(sum, Len(moodValues))))

StdDev(moodValues) == Then(Variance(moodValues), DoubleSqrt)

analyzeMoodPatterns(ls) ==
    LET logsWithMood == Filter(ls, LAMBDA l : Truthy(l.mood_overall))
        moodValues == [i \in DOMAIN logsWithMood |-> logsWithMood[i].mood_overall[1]]
        \* if (stdDev > 2.5)
        variabilityInsight ==
            IF DoubleGt(StdDev(moodValues), TWO_AND_A_HALF)
            THEN << [icon |-> "emoticon-confused",
                     text |-> <<"Your mood has been quite variable. This can be common during perimenopause.">>] >>
            ELSE <<>>
        logsWithBoth == Filter(ls, LAMBDA l : Truthy(l.mood_overall) /\ Truthy(l.mood_anxiety))
        highAnxietyLogs == Filter(logsWithBoth, LAMBDA l : l.mood_anxiety[1] >= HIGH_ANXIETY)
        avgMoodHighAnxiety ==
            DoubleDivInt(DoubleOfInt(SumSeq([i \in DOMAIN highAnxietyLogs |->
                                                highAnxietyLogs[i].mood_overall[1]])),
                         Len(highAnxietyLogs))
        \* avgMoodHighAnxiety < avgMood - 1.5
        anxietyInsight ==
            IF /\ Len(logsWithBoth) >= MIN_MOOD_LOGS
               /\ Len(highAnxietyLogs) >= MIN_GROUP_LOGS
               /\ DoubleGt(DoubleSub(AvgMood(moodValues), ONE_AND_A_HALF), avgMoodHighAnxiety)
            THEN << [icon |-> "alert-circle",
                     text |-> <<"High anxiety days tend to coincide with lower mood. Consider stress-reduction techniques.">>] >>
            ELSE <<>>
    IN  IF Len(logsWithMood) < MIN_MOOD_LOGS THEN <<>>
        ELSE variabilityInsight \o anxietyInsight

(***************************************************************************)
(* getCycleStats: the computation on the rows the query returns            *)
(***************************************************************************)
\* a row of cycle_periods; end_date and length are Null while the period is open
Period(id, start_date, end_date, length) ==
    [id |-> id, start_date |-> start_date, end_date |-> end_date, length |-> length]

\* Math.ceil(ms / (1000 * 60 * 60 * 24))
CeilDays(hours) == -((-hours) \div HOURS_PER_DAY)

\* Math.round(num / den), den > 0: the nearest integer, a half going up
Round(num, den) == (2 * num + den) \div (2 * den)

MIN_PERIODS == 2

\* if (periods.length < 2)
TooFewPeriodsNone(ps) == Len(ps) < 1
TooFewPeriods(ps) == Len(ps) < MIN_PERIODS

\* Math.ceil((current - previous) / (1000 * 60 * 60 * 24)) for i and i + 1
CycleLengthFloor(ps, i) ==
    (DateHours(ps[i].start_date) - DateHours(ps[i + 1].start_date) - 1) \div HOURS_PER_DAY
CycleLength(ps, i) ==
    CeilDays(DateHours(ps[i].start_date) - DateHours(ps[i + 1].start_date))

CycleLengths(ps) == [i \in 1..(Len(ps) - 1) |-> CycleLength(ps, i)]

\* periods.filter((p) => p.length).map((p) => p.length)
PeriodLengths(ps) ==
    LET kept == Filter(ps, LAMBDA p : Truthy(p.length))
    IN  [i \in DOMAIN kept |-> kept[i].length[1]]

\* lengths.length > 0 ? Math.round(sum / lengths.length) : null
AverageOf(lengths) ==
    IF Len(lengths) > 0 THEN Some(Round(SumSeq(lengths), Len(lengths))) ELSE Null

ComputeCycleStats(ps) ==
    IF TooFewPeriods(ps)
    THEN [averageCycleLength |-> Null, averagePeriodLength |-> Null, cycles |-> <<>>]
    ELSE [averageCycleLength |-> AverageOf(CycleLengths(ps)),
          averagePeriodLength |-> AverageOf(PeriodLengths(ps)),
          cycleLengths |-> CycleLengths(ps),
          periodLengths |-> PeriodLengths(ps),
          cycles |-> ps]

(***************************************************************************)
(* analyzePatterns, continued: the cycle analyses and the entry point      *)
(***************************************************************************)
MIN_CYCLE_LENGTHS == 3
MAX_CYCLE_VARIATION == 7
MAX_CYCLE_DAY == 35

Abs(x) == IF x < 0 THEN -x ELSE x

CYCLE_PHASES ==
    [menstrual |-> 1..5, follicular |-> 6..13, ovulation |-> 14..16, luteal |-> 17..28]

phaseOrder == <<"menstrual", "follicular", "ovulation", "luteal">>

\* Math.ceil((logDate - cycleStart) / (1000 * 60 * 60 * 24)) + 1
CycleDayFromZero(date, cycleStartDate) == CeilDays(DateHours(date) - DateHours(cycleStartDate))
CycleDay(date, cycleStartDate) == CeilDays(DateHours(date) - DateHours(cycleStartDate)) + 1

PhaseOfDay(cycleDay) ==
    IF cycleDay \in CYCLE_PHASES.menstrual THEN "menstrual"
    ELSE IF cycleDay \in CYCLE_PHASES.follicular THEN "follicular"
    ELSE IF cycleDay \in CYCLE_PHASES.ovulation THEN "ovulation"
    ELSE "luteal"

\* phaseData[phase].days after the loop over the logs
PhaseDays(ls, cycleStartDate, phase) ==
    Filter(ls, LAMBDA l :
        LET cycleDay == CycleDay(l.date, cycleStartDate)
        IN  ~(cycleDay < 1 \/ cycleDay > MAX_CYCLE_DAY) /\ PhaseOfDay(cycleDay) = phase)

\* worstPhase.avgSymptoms > phaseCounts[last].avgSymptoms * 1.5
WorstPhaseStandsOut(worst, least) ==
    DoubleGt(DoubleDivInt(DoubleOfInt(worst.num), worst.den),
             DoubleMul(DoubleDivInt(DoubleOfInt(least.num), least.den), ONE_AND_A_HALF))

analyzeSymptomsByCyclePhase(ls, cycleStartDate) ==
    LET all == [k \in DOMAIN phaseOrder |->
                  LET days == PhaseDays(ls, cycleStartDate, phaseOrder[k])
                  IN  [phase |-> phaseOrder[k], days |-> Len(days), symptoms |-> SymptomSum(days)]]
        enough == Filter(all, LAMBDA d : d.days >= 2)
        phaseCounts == StableSort([k \in DOMAIN enough |->
                                      [phase |-> enough[k].phase,
                                       avgSymptoms |-> Frac(enough[k].symptoms, enough[k].days)]],
                                  LAMBDA a, b : FracGt(a.avgSymptoms, b.avgSymptoms))
    IN  IF /\ Len(phaseCounts) >= 2
           /\ WorstPhaseStandsOut(phaseCounts[1].avgSymptoms,
                                  phaseCounts[Len(phaseCounts)].avgSymptoms)
        THEN << [icon |-> "calendar-sync",
                 text |-> <<"Symptoms tend to be more pronounced during the ",
                            phaseCounts[1].phase, " phase of your cycle.">>] >>
        ELSE <<>>

analyzeCyclePatterns(ls, stats) ==
    LET lengths == stats.cycleLengths
        n == Len(lengths)
        total == SumSeq(lengths)
        \* Math.max(...lengths.map((l) => Math.abs(l - avgLength))), times n
        maxVariationTimesN ==
            CHOOSE v \in {Abs(lengths[i] * n - total) : i \in DOMAIN lengths} :
                \A i \in DOMAIN lengths : Abs(lengths[i] * n - total) <= v
        variationInsight ==
            IF /\ "cycleLengths" \in DOMAIN stats
               /\ n >= MIN_CYCLE_LENGTHS
               /\ maxVariationTimesN > MAX_CYCLE_VARIATION * n
            THEN << [icon |-> "calendar-clock",
                     text |-> <<"Your cycle length varies by up to ",
                                Round(maxVariationTimesN, n),
                                " days, which is common in perimenopause.">>] >>
            ELSE <<>>
        phaseInsights ==
            IF Len(stats.cycles) >= 1
            THEN analyzeSymptomsByCyclePhase(ls, stats.cycles[1].start_date)
            ELSE <<>>
    IN  variationInsight \o phaseInsights

MIN_PATTERN_LOGS == 7
MIN_CYCLES == 2

\* if (logs.length < 7)
TooFewForPatternsSix(ls) == Len(ls) < MIN_PATTERN_LOGS - 1
TooFewForPatterns(ls) == Len(ls) < MIN_PATTERN_LOGS

PlaceholderBare ==
    [icon |-> "help", text |-> <<"Continue logging.">>]
Placeholder ==
    [icon |-> "information",
     text |-> <<"Continue logging for at least a week to see pattern insights.">>]

analyzePatterns(ls, stats) ==
    IF TooFewForPatterns(ls) THEN [insights |-> <<Placeholder>>]
    ELSE [insights |->
            analyzeDayOfWeekPatterns(ls)
            \o analyzeSleepCorrelation(ls)
            \o analyzeMoodPatterns(ls)
            \o (IF stats # Null /\ Len(stats[1].cycles) >= MIN_CYCLES
                THEN analyzeCyclePatterns(ls, stats[1])
                ELSE <<>>)]

CallAnalyzePatterns ==
    /\ patterns' = Some(analyzePatterns(logs, cycleStatsArg))
    /\ returned' = returned \cup {"analyzePatterns"}
    /\ UNCHANGED <<logs, utcOffsetHours, cycleStatsArg, symptomCounts, pairCounts,
                   correlations, correlationData, trends, thrown>>
    /\ UNCHANGED databaseVars
    /\ UNCHANGED <<connectionVars, storeVars>>

(***************************************************************************)
(* Inputs of analyzePatterns: n logs on consecutive days, the earlier half *)
(* of one kind and the later half of another, one log of a third kind      *)
(* among them; cycle statistics of no, one, two or four periods; a device  *)
(* west of, at, or east of UTC.                                            *)
(***************************************************************************)
MaxPatternLogs == 8

PatternKinds ==
    << [Log(0, Some(SymptomsOf(<<"fatigue", "anxiety", "headaches", "bloating">>)))
            EXCEPT !.sleep_hours = Some(10), !.sleep_quality = Some(2),
                   !.mood_overall = Some(2), !.mood_anxiety = Some(8)],
       [Log(0, Some(<<>>))
            EXCEPT !.sleep_hours = Some(16), !.sleep_quality = Some(5),
                   !.mood_overall = Some(9), !.mood_anxiety = Some(2)],
       Log(0, Null),
       [Log(0, Some(SymptomsOf(<<"hot_flashes">>)))
            EXCEPT !.sleep_hours = Some(14), !.sleep_quality = Some(3),
                   !.mood_overall = Some(5), !.mood_anxiety = Some(5)],
       \* a night without sleep: the sleep slider starts at 0 hours
       [Log(0, Some(SymptomsOf(<<"fatigue", "headaches">>)))
            EXCEPT !.sleep_hours = Some(0), !.sleep_quality = Some(1),
                   !.mood_overall = Some(3), !.mood_anxiety = Some(6)] >>

PatternLogs(n, a, b, p, c) ==
    [i \in 1..n |->
        [ (IF i = p THEN PatternKinds[c]
           ELSE IF i <= n \div 2 THEN PatternKinds[a] ELSE PatternKinds[b])
          EXCEPT !.date = 100 + i ]]

PatternInputs ==
    { PatternLogs(n, a, b, p, c) :
        n \in 0..MaxPatternLogs, a \in DOMAIN PatternKinds, b \in DOMAIN PatternKinds,
        p \in {0, 1, 4}, c \in DOMAIN PatternKinds }

ClosedPeriod(id, start_date, end_date) ==
    Period(id, start_date, Some(end_date), Some(end_date - start_date + 1))

\* what getCycleStats returns for no closed period, for one, for two that
\* start 28 days apart, and for four that start 28, 40 and 28 days apart
CycleStatsInputs ==
    { Null,
      Some(ComputeCycleStats(<<>>)),
      Some(ComputeCycleStats(<<ClosedPeriod(1, 101, 105)>>)),
      Some(ComputeCycleStats(<<ClosedPeriod(2, 101, 105), ClosedPeriod(1, 73, 76)>>)),
      Some(ComputeCycleStats(<<ClosedPeriod(4, 101, 105), ClosedPeriod(3, 73, 76),
                               ClosedPeriod(2, 33, 37), ClosedPeriod(1, 5, 9)>>)) }

UtcOffsets == {-5, 0, 2}

InitPatterns ==
    /\ logs \in PatternInputs
    /\ utcOffsetHours \in UtcOffsets
    /\ cycleStatsArg \in CycleStatsInputs
    /\ AnalysisIdle
    /\ DatabaseEmpty
    /\ ConnectionOpen
    /\ StoreEmpty
    /\ returned = {}
    /\ thrown = {}

NextPatterns == CallAnalyzePatterns

SpecPatterns == InitPatterns /\ [][NextPatterns]_vars

PatternsRun == "analyzePatterns" \in returned

\* what the analyses find in the logs when they are run without the floor
FindingsBelowFloor ==
    analyzeDayOfWeekPatterns(logs) \o analyzeSleepCorrelation(logs) \o analyzeMoodPatterns(logs)
    \o (IF cycleStatsArg # Null /\ Len(cycleStatsArg[1].cycles) >= 2
        THEN analyzeCyclePatterns(logs, cycleStatsArg[1]) ELSE <<>>)

\* C1: with fewer than 7 logs analyzePatterns returns exactly one insight, of
\* icon 'information', whatever the logs and the cycle statistics hold
C1_PlaceholderBelowSeven ==
    (PatternsRun /\ Len(logs) < 7) =>
        /\ Len(patterns[1].insights) = 1
        /\ patterns[1].insights[1].icon = "information"
        /\ LET findings == FindingsBelowFloor
           IN  \A k \in DOMAIN findings :
                  \A j \in DOMAIN patterns[1].insights :
                      patterns[1].insights[j] # findings[k]

\* 6 logs in which the analyses of weekdays, sleep and cycle phases would each
\* find something, and only the placeholder is returned
C1_Witness ==
    /\ PatternsRun
    /\ Len(logs) = 6
    /\ patterns[1].insights = <<Placeholder>>
    /\ {"sleep", "battery-low"}
          \subseteq {FindingsBelowFloor[k].icon : k \in DOMAIN FindingsBelowFloor}

(***************************************************************************)
(* The cycle_periods table and the handlers that write it                  *)
(***************************************************************************)
\* SELECT * FROM cycle_periods WHERE end_date IS NULL ORDER BY start_date DESC,
\* first row: a row the query may return, or Null when there is none
UnclosedPeriods(table) ==
    LET open == {r \in table : r.end_date = Null}
    IN  IF open = {} THEN {Null}
        ELSE {Some(r) : r \in {q \in open : \A o \in open : o.start_date <= q.start_date}}

\* Math.ceil((end - start) / (1000 * 60 * 60 * 24)) + 1
LengthInDays(start_date, end_date) ==
    CeilDays(DateHours(end_date) - DateHours(start_date)) + 1

\* UPDATE cycle_periods SET end_date = ?, length = ? WHERE id = ?
ClosePeriod(table, id, endDate) ==
    { IF r.id = id
      THEN [r EXCEPT !.end_date = Some(endDate),
                     !.length = Some(LengthInDays(r.start_date, endDate))]
      ELSE r : r \in table }

\* startPeriod(startDate), given the row its first query returned
startPeriod(table, unclosed, startDate) ==
    LET closed == IF unclosed # Null THEN ClosePeriod(table, unclosed[1].id, startDate)
                  ELSE table
    IN  closed \cup {Period(lastInsertRowId + 1, startDate, Null, Null)}

\* endPeriod(id, endDate): nothing is written when no row has the id
endPeriod(table, id, endDate) == ClosePeriod(table, id, endDate)

\* of PERIOD_FLOW_OPTIONS, 'none' and one of the flows that are not 'none'
LoggedFlows == {"none", "medium"}

\* the most rows the table is let grow to
MaxPeriods == 2

\* the days the date selector and the calendar are used on
SelectableDates == {1, 2, 29, 57}

\* endDate.setDate(endDate.getDate() - 1), where no clock change falls between
DayBefore(date) == date - 1

\* LogScreen.handleSave, as far as periods go: a flow on a day without a
\* current period starts one; no flow on a day with a current period ends it
\* the day before.  currentPeriod is what loadData read on focus.
handleSave(selectedDate, periodFlow) ==
    \E currentPeriod \in UnclosedPeriods(cycle_periods) :
        /\ IF periodFlow # "none" /\ currentPeriod = Null
           THEN /\ lastInsertRowId < MaxPeriods
                /\ \E unclosed \in UnclosedPeriods(cycle_periods) :
                      cycle_periods' = startPeriod(cycle_periods, unclosed, selectedDate)
                /\ lastInsertRowId' = lastInsertRowId + 1
           ELSE IF periodFlow = "none" /\ currentPeriod # Null
           THEN /\ cycle_periods' = endPeriod(cycle_periods, currentPeriod[1].id,
                                              DayBefore(selectedDate))
                /\ UNCHANGED lastInsertRowId
           ELSE UNCHANGED <<cycle_periods, lastInsertRowId>>
        /\ UNCHANGED <<periods, cycleStats, calls, returned, thrown>>
        /\ UNCHANGED analysisVars
        /\ UNCHANGED <<connectionVars, storeVars>>

\* the orders ORDER BY start_date DESC may return rows in: rows of equal
\* start_date come in any order
RECURSIVE Orderings(_)
Orderings(rows) ==
    IF rows = {} THEN {<<>>}
    ELSE UNION { {<<r>> \o rest : rest \in Orderings(rows \ {r})} :
                 r \in {q \in rows : \A o \in rows : o.start_date <= q.start_date} }

QUERY_LIMIT == 12

\* SELECT * FROM cycle_periods WHERE end_date IS NOT NULL
\* ORDER BY start_date DESC LIMIT 12
ClosedPeriodsQuery(table) ==
    LET closed == {r \in table : r.end_date # Null}
    IN  {SubSeq(o, 1, Min(Len(o), QUERY_LIMIT)) : o \in Orderings(closed)}

\* CalendarScreen.handleEndPeriod: ends the current period on the selected day
\* and reloads the calendar, which asks for the cycle statistics again
handleEndPeriod(selectedDate) ==
    \E currentPeriod \in UnclosedPeriods(cycle_periods) :
        /\ IF currentPeriod # Null
           THEN /\ cycle_periods' = endPeriod(cycle_periods, currentPeriod[1].id, selectedDate)
                /\ \E rows \in ClosedPeriodsQuery(cycle_periods') :
                      /\ periods' = rows
                      /\ cycleStats' = Some(ComputeCycleStats(rows))
                /\ returned' = returned \cup {"getCycleStats"}
           ELSE UNCHANGED <<cycle_periods, periods, cycleStats, returned>>
        /\ UNCHANGED <<lastInsertRowId, calls, thrown>>
        /\ UNCHANGED analysisVars
        /\ UNCHANGED <<connectionVars, storeVars>>

\* getCycleStats()
CallGetCycleStats ==
    /\ \E rows \in ClosedPeriodsQuery(cycle_periods) :
          /\ periods' = rows
          /\ cycleStats' = Some(ComputeCycleStats(rows))
    /\ returned' = returned \cup {"getCycleStats"}
    /\ UNCHANGED <<cycle_periods, lastInsertRowId, calls, thrown>>
    /\ UNCHANGED analysisVars
    /\ UNCHANGED <<connectionVars, storeVars>>

InitCycle ==
    /\ logs = <<>>
    /\ utcOffsetHours = 0
    /\ cycleStatsArg = Null
    /\ AnalysisIdle
    /\ DatabaseEmpty
    /\ ConnectionOpen
    /\ StoreEmpty
    /\ returned = {}
    /\ thrown = {}

NextCycle ==
    \/ \E d \in SelectableDates, f \in LoggedFlows : handleSave(d, f)
    \/ \E d \in SelectableDates : handleEndPeriod(d)
    \/ CallGetCycleStats

SpecCycle == InitCycle /\ [][NextCycle]_vars

(***************************************************************************)
(* Inputs of getCycleStats: tables the handlers can leave behind, of up to *)
(* MaxStoredPeriods closed periods, with or without a current period.      *)
(***************************************************************************)
MaxStoredPeriods == 3

\* start dates 28 days apart, and one a day after the last of them
StoredStartDates == {1, 29, 57, 58}

\* a period ended the day before it started, and one of 5 days
StoredLengths == {0, 5}

StoredTable(k, starts, lengths, open) ==
    { Period(i, starts[i], Some(starts[i] + lengths[i] - 1), Some(lengths[i])) : i \in 1..k }
    \cup (IF open THEN {Period(k + 1, 86, Null, Null)} ELSE {})

StoredTables ==
    UNION { { StoredTable(k, starts, lengths, open) :
                starts \in [1..k -> StoredStartDates], lengths \in [1..k -> StoredLengths],
                open \in BOOLEAN } : k \in 0..MaxStoredPeriods }

InitStats ==
    /\ logs = <<>>
    /\ utcOffsetHours = 0
    /\ cycleStatsArg = Null
    /\ AnalysisIdle
    /\ cycle_periods \in StoredTables
    /\ lastInsertRowId = Cardinality(cycle_periods)
    /\ periods = <<>>
    /\ cycleStats = Null
    /\ calls = <<>>
    /\ returned = {}
    /\ thrown = {}
    /\ ConnectionOpen
    /\ StoreEmpty

NextStats == CallGetCycleStats

SpecStats == InitStats /\ [][NextStats]_vars

CycleStatsRun == "getCycleStats" \in returned

\* C3: with no closed period or one, the statistics are exactly
\* {averageCycleLength: null, averagePeriodLength: null, cycles: []}
C3_DegenerateBelowTwoPeriods ==
    (CycleStatsRun /\ Len(periods) < 2) =>
        cycleStats[1] = [averageCycleLength |-> Null, averagePeriodLength |-> Null,
                         cycles |-> <<>>]

\* one closed period of known length, and the degenerate statistics
C3_Witness ==
    /\ CycleStatsRun
    /\ Len(periods) = 1
    /\ periods[1].length # Null
    /\ cycleStats[1].cycles = <<>>
    /\ cycleStats[1].averagePeriodLength = Null

\* C9: for n >= 2 periods, most recent first, cycleLengths has n - 1 entries,
\* entry i is the number of days from the start of period i + 1 to the start
\* of period i, and averageCycleLength is their mean rounded to the nearest
\* integer; starts 28 days apart give 28 throughout
C9_CycleLengthsAndAverage ==
    (CycleStatsRun /\ Len(periods) >= 2) =>
        LET n == Len(periods)
            lengths == cycleStats[1].cycleLengths
            avg == cycleStats[1].averageCycleLength
        IN  /\ Len(lengths) = n - 1
            /\ \A i \in 1..(n - 1) :
                  lengths[i] = periods[i].start_date - periods[i + 1].start_date
            /\ avg # Null
            /\ 2 * avg[1] * (n - 1) - 2 * SumSeq(lengths) \in (-(n - 1) + 1)..(n - 1)
            /\ (\A i \in 1..(n - 1) : periods[i].start_date - periods[i + 1].start_date = 28)
                  => /\ \A i \in 1..(n - 1) : lengths[i] = 28
                     /\ avg = Some(28)

\* three periods that start 28 days apart
C9_Witness ==
    /\ CycleStatsRun
    /\ Len(periods) = 3
    /\ cycleStats[1].cycleLengths = <<28, 28>>
    /\ cycleStats[1].averageCycleLength = Some(28)

\* the lengths of the periods whose length is not null
PeriodLengthsNonNull(ps) ==
    LET kept == Filter(ps, LAMBDA p : p.length # Null)
    IN  [i \in DOMAIN kept |-> kept[i].length[1]]

\* C10: averagePeriodLength is the mean, rounded to the nearest integer, of
\* the length of every period whose length is not null, and null if there is
\* no such period
C10_AverageOverNonNullLengths ==
    (CycleStatsRun /\ Len(periods) >= 2) =>
        LET lengths == PeriodLengthsNonNull(periods)
            k == Len(lengths)
            avg == cycleStats[1].averagePeriodLength
        IN  IF k = 0 THEN avg = Null
            ELSE /\ avg # Null
                 /\ 2 * avg[1] * k - 2 * SumSeq(lengths) \in (-k + 1)..k

\* the stored periods, closed and open, most recent start first
StoredPeriodsByStart == Orderings(cycle_periods)

\* C11: when the stored periods include the open one, its start date still
\* gives a cycleLengths entry (its gap to the next record), so there is one
\* entry per consecutive pair of stored periods, and the open period adds
\* nothing to the period lengths that are averaged
C11_OpenPeriodGivesCycleLength ==
    (/\ CycleStatsRun
     /\ Cardinality(cycle_periods) >= 2
     /\ \E r \in cycle_periods : r.end_date = Null) =>
        /\ "cycleLengths" \in DOMAIN cycleStats[1]
        /\ \E all \in StoredPeriodsByStart :
              cycleStats[1].cycleLengths =
                  [i \in 1..(Len(all) - 1) |-> all[i].start_date - all[i + 1].start_date]
        /\ Len(cycleStats[1].periodLengths) <= Cardinality(cycle_periods) - 1

(***************************************************************************)
(* startPeriod, endPeriod and deletePeriod statement by statement: every   *)
(* await hands control to whatever other call is in progress.              *)
(***************************************************************************)
\* the most calls that are made
MaxCalls == 3

\* the dates the calls are made with
CallDates == {1, 29}

Call(op, pc, id, date) ==
    [op |-> op, pc |-> pc, id |-> id, date |-> date, unclosed |-> Null, period |-> Null]

\* SELECT start_date FROM cycle_periods WHERE id = ?
PeriodById(table, id) ==
    IF \E r \in table : r.id = id
    THEN Some((CHOOSE r \in table : r.id = id).start_date)
    ELSE Null

\* startPeriod(startDate) is called
startPeriod_call(startDate) ==
    /\ Len(calls) < MaxCalls
    /\ calls' = Append(calls, Call("startPeriod", "getUnclosed", 0, startDate))
    /\ UNCHANGED <<cycle_periods, lastInsertRowId, periods, cycleStats, returned, thrown>>
    /\ UNCHANGED analysisVars
    /\ UNCHANGED <<connectionVars, storeVars>>

\* const unclosed = await db.getFirstAsync('... WHERE end_date IS NULL ...')
startPeriod_getUnclosed(c) ==
    /\ calls[c].op = "startPeriod" /\ calls[c].pc = "getUnclosed"
    /\ \E unclosed \in UnclosedPeriods(cycle_periods) :
          calls' = [calls EXCEPT ![c].unclosed = unclosed,
                                 ![c].pc = IF unclosed # Null THEN "getPeriod" ELSE "insert"]
    /\ UNCHANGED <<cycle_periods, lastInsertRowId, periods, cycleStats, returned, thrown>>
    /\ UNCHANGED analysisVars
    /\ UNCHANGED <<connectionVars, storeVars>>

\* const period = await db.getFirstAsync('SELECT start_date ... WHERE id = ?')
startPeriod_getPeriod(c) ==
    /\ calls[c].op = "startPeriod" /\ calls[c].pc = "getPeriod"
    /\ LET period == PeriodById(cycle_periods, calls[c].unclosed[1].id)
       IN  calls' = [calls EXCEPT ![c].period = period,
                                  ![c].pc = IF period # Null THEN "update" ELSE "insert"]
    /\ UNCHANGED <<cycle_periods, lastInsertRowId, periods, cycleStats, returned, thrown>>
    /\ UNCHANGED analysisVars
    /\ UNCHANGED <<connectionVars, storeVars>>

\* await db.runAsync('UPDATE cycle_periods SET end_date = ?, length = ? WHERE id = ?')
startPeriod_update(c) ==
    /\ calls[c].op = "startPeriod" /\ calls[c].pc = "update"
    /\ cycle_periods' = ClosePeriod(cycle_periods, calls[c].unclosed[1].id, calls[c].date)
    /\ calls' = [calls EXCEPT ![c].pc = "insert"]
    /\ UNCHANGED <<lastInsertRowId, periods, cycleStats, returned, thrown>>
    /\ UNCHANGED analysisVars
    /\ UNCHANGED <<connectionVars, storeVars>>

\* await db.runAsync('INSERT INTO cycle_periods (start_date) VALUES (?)')
startPeriod_insert(c) ==
    /\ calls[c].op = "startPeriod" /\ calls[c].pc = "insert"
    /\ cycle_periods' = cycle_periods \cup {Period(lastInsertRowId + 1, calls[c].date, Null, Null)}
    /\ lastInsertRowId' = lastInsertRowId + 1
    /\ calls' = [calls EXCEPT ![c].pc = "done"]
    /\ UNCHANGED <<periods, cycleStats, returned, thrown>>
    /\ UNCHANGED analysisVars
    /\ UNCHANGED <<connectionVars, storeVars>>

\* endPeriod(id, endDate) is called, with the id of a period that was started
endPeriod_call(id, endDate) ==
    /\ Len(calls) < MaxCalls
    /\ id \in 1..lastInsertRowId
    /\ calls' = Append(calls, Call("endPeriod", "getPeriod", id, endDate))
    /\ UNCHANGED <<cycle_periods, lastInsertRowId, periods, cycleStats, returned, thrown>>
    /\ UNCHANGED analysisVars
    /\ UNCHANGED <<connectionVars, storeVars>>

\* const period = await db.getFirstAsync('SELECT start_date ... WHERE id = ?')
endPeriod_getPeriod(c) ==
    /\ calls[c].op = "endPeriod" /\ calls[c].pc = "getPeriod"
    /\ LET period == PeriodById(cycle_periods, calls[c].id)
       IN  calls' = [calls EXCEPT ![c].period = period,
                                  ![c].pc = IF period # Null THEN "update" ELSE "done"]
    /\ UNCHANGED <<cycle_periods, lastInsertRowId, periods, cycleStats, returned, thrown>>
    /\ UNCHANGED analysisVars
    /\ UNCHANGED <<connectionVars, storeVars>>

\* await db.runAsync('UPDATE cycle_periods SET end_date = ?, length = ? WHERE id = ?')
endPeriod_update(c) ==
    /\ calls[c].op = "endPeriod" /\ calls[c].pc = "update"
    /\ cycle_periods' = ClosePeriod(cycle_periods, calls[c].id, calls[c].date)
    /\ calls' = [calls EXCEPT ![c].pc = "done"]
    /\ UNCHANGED <<lastInsertRowId, periods, cycleStats, returned, thrown>>
    /\ UNCHANGED analysisVars
    /\ UNCHANGED <<connectionVars, storeVars>>

\* deletePeriod(id): await db.runAsync('DELETE FROM cycle_periods WHERE id = ?')
deletePeriod(id) ==
    /\ Len(calls) < MaxCalls
    /\ id \in 1..lastInsertRowId
    /\ cycle_periods' = {r \in cycle_periods : r.id # id}
    /\ calls' = Append(calls, Call("deletePeriod", "done", id, 0))
    /\ UNCHANGED <<lastInsertRowId, periods, cycleStats, returned, thrown>>
    /\ UNCHANGED analysisVars
    /\ UNCHANGED <<connectionVars, storeVars>>

InitCalls == InitCycle

NextCalls ==
    \/ \E d \in CallDates : startPeriod_call(d)
    \/ \E id \in 1..MaxCalls, d \in CallDates : endPeriod_call(id, d)
    \/ \E id \in 1..MaxCalls : deletePeriod(id)
    \/ \E c \in DOMAIN calls : startPeriod_getUnclosed(c)
    \/ \E c \in DOMAIN calls : startPeriod_getPeriod(c)
    \/ \E c \in DOMAIN calls : startPeriod_update(c)
    \/ \E c \in DOMAIN calls : startPeriod_insert(c)
    \/ \E c \in DOMAIN calls : endPeriod_getPeriod(c)
    \/ \E c \in DOMAIN calls : endPeriod_update(c)

SpecCalls == InitCalls /\ [][NextCalls]_vars

OpenPeriods == {r \in cycle_periods : r.end_date = Null}

\* C12: at most one period has a null end date at any time, after any calls
\* of startPeriod, endPeriod and deletePeriod, their awaited steps
\* interleaving or not
C12_AtMostOneOpenPeriod == Cardinality(OpenPeriods) <= 1

\* the two periods have a calendar day in common; an open period runs from
\* its start date onward
Overlap(p, q) ==
    /\ p.end_date # Null => p.start_date <= p.end_date[1]
    /\ q.end_date # Null => q.start_date <= q.end_date[1]
    /\ q.end_date # Null => p.start_date <= q.end_date[1]
    /\ p.end_date # Null => q.start_date <= p.end_date[1]

\* C13: no calendar day belongs to two stored periods, after any sequence of
\* startPeriod and endPeriod calls
C13_PeriodsDoNotOverlap ==
    \A p \in cycle_periods : \A q \in cycle_periods : p.id # q.id => ~Overlap(p, q)

(***************************************************************************)
(* getTrends: the halves and the three trends                              *)
(***************************************************************************)
\* the logs by the rank of their date: the log with r - 1 earlier logs is r-th
ByDateRank(ls) ==
    [r \in 1..Len(ls) |->
        CHOOSE l \in Range(ls) : Cardinality({m \in Range(ls) : m.date < l.date}) = r - 1]

EarliestHalf(ls) == SubSeq(ByDateRank(ls), 1, Len(ls) \div 2)
LatestHalf(ls) == SubSeq(ByDateRank(ls), (Len(ls) \div 2) + 1, Len(ls))

TrendsReturned == "getTrends" \in returned /\ Len(logs) >= 7

\* C14: for n >= 7 logs of distinct dates in any order the first half is the
\* floor(n/2) earliest logs and the second half the others, so the result is
\* that of the same logs in another order, and the period reported runs from
\* the earliest date to the latest over n days
C14_HalvesByDate ==
    TrendsReturned =>
        LET n == Len(logs)
            dates == {logs[i].date : i \in 1..n}
        IN  /\ trends[1].moodTrend = FieldTrend(EarliestHalf(logs), LatestHalf(logs), "mood_overall")
            /\ trends[1].energyTrend = FieldTrend(EarliestHalf(logs), LatestHalf(logs), "mood_energy")
            /\ trends[1].symptomTrend = SymptomTrend(EarliestHalf(logs), LatestHalf(logs))
            /\ trends = getTrends(Reverse(logs))
            /\ trends = getTrends(Tail(logs) \o <<Head(logs)>>)
            /\ trends[1].periodAnalyzed.start \in dates
            /\ trends[1].periodAnalyzed.end \in dates
            /\ \A d \in dates : trends[1].periodAnalyzed.start <= d /\ d <= trends[1].periodAnalyzed.end
            /\ trends[1].periodAnalyzed.days = n

\* 7 logs supplied latest first, the 3 earliest of them of mood 8 and of the 4
\* latest one of mood 8 and three of mood 3: the mood trend is 17/4 - 24/3
C14_Witness ==
    /\ TrendsReturned
    /\ Len(logs) = 7
    /\ logs[1].date = 7 /\ logs[7].date = 1
    /\ trends[1].moodTrend = Some(Frac(17 * 3 - 24 * 4, 4 * 3))
    /\ trends[1].periodAnalyzed = [start |-> 1, end |-> 7, days |-> 7]

\* the logs of the half that have the field
WithField(half, field) == {i \in DOMAIN half : half[i][field] # Null}

RECURSIVE FieldTotal(_, _, _)
FieldTotal(half, field, present) ==
    IF present = {} THEN 0
    ELSE LET i == CHOOSE i \in present : TRUE
         IN  half[i][field][1] + FieldTotal(half, field, present \ {i})

\* the mean of the field over the logs of the half that have it
MeanOfField(half, field) ==
    Frac(FieldTotal(half, field, WithField(half, field)), Cardinality(WithField(half, field)))

TrendOfFieldIsDifferenceOfMeans(trend, field) ==
    LET first == EarliestHalf(logs)
        second == LatestHalf(logs)
    IN  /\ trend = Null <=> (WithField(first, field) = {} \/ WithField(second, field) = {})
        /\ trend # Null =>
              FracEq(trend[1], FracMinus(MeanOfField(second, field), MeanOfField(first, field)))

\* C15: moodTrend, and energyTrend alike, is the mean of the field over the
\* second-half logs that have it minus that mean over the first half, logs
\* without the field left out of sum and count; it is null exactly when a
\* half has no log with the field
C15_FieldTrendIsDifferenceOfMeans ==
    TrendsReturned =>
        /\ TrendOfFieldIsDifferenceOfMeans(trends[1].moodTrend, "mood_overall")
        /\ TrendOfFieldIsDifferenceOfMeans(trends[1].energyTrend, "mood_energy")

\* a log without mood_overall in a half whose other logs have it, and a mood
\* trend all the same
C15_Witness ==
    /\ TrendsReturned
    /\ trends[1].moodTrend # Null
    /\ trends[1].moodTrend[1].num # 0
    /\ \E i \in DOMAIN EarliestHalf(logs) : EarliestHalf(logs)[i].mood_overall = Null
    /\ trends[1].energyTrend = Null

RECURSIVE SymptomTotal(_)
SymptomTotal(half) ==
    IF half = <<>> THEN 0
    ELSE (IF Head(half).symptoms = Null THEN 0 ELSE Len(Head(half).symptoms[1]))
         + SymptomTotal(Tail(half))

\* C16: symptomTrend is the symptoms per log of the second half minus those
\* of the first half, every log counted and a log without symptoms counted
\* as 0; for n >= 7 it is a number
C16_SymptomTrendCountsEveryLog ==
    TrendsReturned =>
        LET first == EarliestHalf(logs)
            second == LatestHalf(logs)
        IN  /\ Len(first) > 0 /\ Len(second) > 0
            /\ trends[1].symptomTrend.den > 0
            /\ FracEq(trends[1].symptomTrend,
                      FracMinus(Frac(SymptomTotal(second), Len(second)),
                                Frac(SymptomTotal(first), Len(first))))

\* 7 logs, some without a symptoms array, and a symptom trend that is not 0
C16_Witness ==
    /\ TrendsReturned
    /\ Len(logs) = 7
    /\ \E i \in DOMAIN logs : logs[i].symptoms = Null
    /\ \E i \in DOMAIN logs : logs[i].symptoms # Null /\ Len(logs[i].symptoms[1]) = 2
    /\ trends[1].symptomTrend.num # 0

(***************************************************************************)
(* analyzePatterns: when each insight is emitted                           *)
(***************************************************************************)
PatternsAnalysed == PatternsRun /\ Len(logs) >= 7

\* the insights of the icon that analyzePatterns returned
InsightsOf(icon) ==
    {i \in DOMAIN patterns[1].insights : patterns[1].insights[i].icon = icon}

\* the weekday, 0 for Sunday, of the calendar day the ISO date names
CalendarWeekday(date) == (date + 4) % 7

\* the symptoms logged on the dates that fall on the weekday
WeekdayTotal(d) ==
    SumSeq([i \in DOMAIN logs |->
              IF CalendarWeekday(logs[i].date) = d THEN SymptomsLength(logs[i]) ELSE 0])

\* C17: with 7 logs or more the busiest-weekday insight is emitted exactly
\* when the largest weekday total exceeds the smallest by at least 50% and is
\* greater than 3, and it names the calendar weekday of the largest total
C17_BusiestWeekday ==
    PatternsAnalysed =>
        LET largest == CHOOSE t \in {WeekdayTotal(d) : d \in 0..6} :
                           \A d \in 0..6 : WeekdayTotal(d) <= t
            smallest == CHOOSE t \in {WeekdayTotal(d) : d \in 0..6} :
                            \A d \in 0..6 : WeekdayTotal(d) >= t
        IN  /\ InsightsOf("calendar-week") # {} <=> (2 * largest >= 3 * smallest /\ largest > 3)
            /\ \A i \in InsightsOf("calendar-week") :
                  \E d \in 0..6 :
                      /\ WeekdayTotal(d) = largest
                      /\ patterns[1].insights[i].text[2] = dayNames[d + 1]

\* the logs in which sleepHours and sleepQuality are both present
LogsWithSleepPresent ==
    {i \in DOMAIN logs : logs[i].sleep_hours # Null /\ logs[i].sleep_quality # Null}

SymptomsIn(group) ==
    SumSeq([i \in DOMAIN logs |-> IF i \in group THEN SymptomsLength(logs[i]) ELSE 0])

\* C18: the poor-sleep insight is emitted exactly when at least 5 logs have
\* sleepHours and sleepQuality present, at least 3 of them have quality >= 4
\* and at least 3 have quality <= 2, and the symptoms per log of the latter
\* exceed those of the former by at least 30%
C18_PoorSleepInsight ==
    PatternsAnalysed =>
        LET good == {i \in LogsWithSleepPresent : logs[i].sleep_quality[1] >= 4}
            poor == {i \in LogsWithSleepPresent : logs[i].sleep_quality[1] <= 2}
        IN  InsightsOf("sleep") # {} <=>
                /\ Cardinality(LogsWithSleepPresent) >= 5
                /\ Cardinality(good) >= 3
                /\ Cardinality(poor) >= 3
                /\ 10 * SymptomsIn(poor) * Cardinality(good)
                      >= 13 * SymptomsIn(good) * Cardinality(poor)
                /\ SymptomsIn(poor) * Cardinality(good) > SymptomsIn(good) * Cardinality(poor)

\* C19: the fatigue insight is emitted exactly when at least 3 logs have
\* sleepHours < 6 and more than half of those logs contain 'fatigue'
C19_FatigueInsight ==
    PatternsAnalysed =>
        LET low == {i \in DOMAIN logs :
                       /\ logs[i].sleep_hours # Null
                       /\ logs[i].sleep_hours[1] < 6 * HALF_HOURS_PER_HOUR}
            tired == {i \in low : HasFatigue(logs[i])}
        IN  InsightsOf("battery-low") # {} <=>
                (Cardinality(low) >= 3 /\ 2 * Cardinality(tired) > Cardinality(low))

(***************************************************************************)
(* Inputs of analyzePatterns for the mood variability: logs as the Log     *)
(* screen saves them when only the mood slider is moved, so many of mood   *)
(* 2, of mood 8 and of mood 9 and the others of mood 10.                   *)
(***************************************************************************)
MaxMoodLogs == 18

\* the values the Log screen starts from: mood, anxiety and energy 5,
\* 7 hours of sleep of quality 3, no symptom
SavedLog(date, mood) ==
    [Log(date, Some(<<>>))
        EXCEPT !.mood_overall = Some(mood), !.mood_anxiety = Some(5), !.mood_energy = Some(5),
               !.sleep_hours = Some(7 * HALF_HOURS_PER_HOUR), !.sleep_quality = Some(3)]

MoodLogs(n, twos, eights, nines) ==
    [i \in 1..n |->
        SavedLog(100 + i, IF i <= twos THEN 2
                          ELSE IF i <= twos + eights THEN 8
                          ELSE IF i <= twos + eights + nines THEN 9
                          ELSE 10)]

MoodInputs ==
    { MoodLogs(n, twos, eights, nines) :
        n \in (MaxMoodLogs - 2)..MaxMoodLogs, twos \in 0..3, eights \in 0..3, nines \in 0..2 }

InitMood ==
    /\ logs \in MoodInputs
    /\ utcOffsetHours = 0
    /\ cycleStatsArg = Null
    /\ AnalysisIdle
    /\ DatabaseEmpty
    /\ ConnectionOpen
    /\ StoreEmpty
    /\ returned = {}
    /\ thrown = {}

NextMood == CallAnalyzePatterns

SpecMood == InitMood /\ [][NextMood]_vars

\* the logs in which moodOverall is present
LogsWithMoodPresent == {i \in DOMAIN logs : logs[i].mood_overall # Null}

MoodTotal == SumSeq([i \in DOMAIN logs |->
                        IF i \in LogsWithMoodPresent THEN logs[i].mood_overall[1] ELSE 0])

MoodSquaresTotal ==
    SumSeq([i \in DOMAIN logs |->
               IF i \in LogsWithMoodPresent
               THEN logs[i].mood_overall[1] * logs[i].mood_overall[1] ELSE 0])

\* variance > 6.25, the variance being MoodSquaresTotal / n - (MoodTotal / n)^2
MoodVarianceAbove625 ==
    LET n == Cardinality(LogsWithMoodPresent)
    IN  4 * (n * MoodSquaresTotal - MoodTotal * MoodTotal) > 25 * n * n

\* C20: the mood-variability insight is emitted exactly when at least 7 logs
\* have moodOverall present and the population standard deviation of those
\* values is strictly greater than 2.5, that is their variance above 6.25
C20_MoodVariabilityAbove25 ==
    PatternsAnalysed =>
        (InsightsOf("emoticon-confused") # {} <=>
            (Cardinality(LogsWithMoodPresent) >= 7 /\ MoodVarianceAbove625))

\* ---------------------------------------------------------------------------
\* Anxiety and mood (analyzeMoodPatterns)

MaxAnxietyLogs == 9

\* a log as the Log screen saves it, with the anxiety slider moved
AnxiousLog(date, mood, anxiety) ==
    [SavedLog(date, mood) EXCEPT !.mood_anxiety = Some(anxiety)]

\* the first `high` logs have anxiety 8 and mood 1 (`ones` of them) or 2;
\* the others keep anxiety 5 and have mood 9 (`nines` of them) or 5
AnxietyLogs(n, high, ones, nines) ==
    [i \in 1..n |->
        IF i <= high
        THEN AnxiousLog(100 + i, IF i <= ones THEN 1 ELSE 2, 8)
        ELSE AnxiousLog(100 + i, IF i <= high + nines THEN 9 ELSE 5, 5)]

AnxietyInputs ==
    { AnxietyLogs(n, high, ones, nines) :
        n \in (MaxAnxietyLogs - 3)..MaxAnxietyLogs, high \in 0..6, ones \in 0..2, nines \in 0..3 }

InitAnxiety ==
    /\ logs \in AnxietyInputs
    /\ utcOffsetHours = 0
    /\ cycleStatsArg = Null
    /\ AnalysisIdle
    /\ DatabaseEmpty
    /\ ConnectionOpen
    /\ StoreEmpty
    /\ returned = {}
    /\ thrown = {}

NextAnxiety == CallAnalyzePatterns

SpecAnxiety == InitAnxiety /\ [][NextAnxiety]_vars

\* the logs in which moodOverall and moodAnxiety are both present
LogsWithBothPresent ==
    {i \in LogsWithMoodPresent : logs[i].mood_anxiety # Null}

HighAnxietyPresent == {i \in LogsWithBothPresent : logs[i].mood_anxiety[1] >= 7}

HighAnxietyMoodTotal ==
    SumSeq([i \in DOMAIN logs |->
               IF i \in HighAnxietyPresent THEN logs[i].mood_overall[1] ELSE 0])

\* mean mood of the high-anxiety logs < overall mean mood - 3/2
HighAnxietyMoodLower ==
    LET n == Cardinality(LogsWithMoodPresent)
        h == Cardinality(HighAnxietyPresent)
    IN  2 * n * HighAnxietyMoodTotal < h * (2 * MoodTotal - 3 * n)

\* C21: the anxiety-mood insight is emitted exactly when at least 7 logs have
\* both moodOverall and moodAnxiety present, at least 3 of those have
\* moodAnxiety >= 7, and the mean moodOverall of those high-anxiety logs is
\* more than 1.5 below the mean moodOverall of the logs that have one
C21_AnxietyInsight ==
    PatternsRun =>
        (InsightsOf("alert-circle") # {} <=>
            /\ Cardinality(LogsWithBothPresent) >= 7
            /\ Cardinality(HighAnxietyPresent) >= 3
            /\ HighAnxietyMoodLower)

\* ---------------------------------------------------------------------------
\* Cycle phases (analyzeSymptomsByCyclePhase)

MaxPhaseLogs == 8

PhaseSymptomIds == <<"hot_flashes", "fatigue", "headaches">>

\* n logs `stride` days apart from `base` on; the first `split` of them hold
\* `early` symptoms each, the later ones `late` symptoms each
PhaseLogs(n, base, stride, split, early, late) ==
    [i \in 1..n |->
        Log(base + stride * (i - 1),
            Some(SymptomsOf(SubSeq(PhaseSymptomIds, 1, IF i <= split THEN early ELSE late))))]

PhaseInputs ==
    { PhaseLogs(n, base, stride, split, early, late) :
        n \in (MaxPhaseLogs - 1)..MaxPhaseLogs, base \in {99, 101, 113, 130},
        stride \in {1, 3, 5}, split \in {3, 5},
        early \in 0..Len(PhaseSymptomIds), late \in 0..Len(PhaseSymptomIds) }

InitPhase ==
    /\ logs \in PhaseInputs
    /\ utcOffsetHours = 0
    /\ cycleStatsArg \in CycleStatsInputs
    /\ AnalysisIdle
    /\ DatabaseEmpty
    /\ ConnectionOpen
    /\ StoreEmpty
    /\ returned = {}
    /\ thrown = {}

NextPhase == CallAnalyzePatterns

SpecPhase == InitPhase /\ [][NextPhase]_vars

\* the cycle analysis ran: analyzePatterns returned for at least 7 logs and
\* at least 2 cycles
CyclesAnalysed ==
    PatternsAnalysed /\ cycleStatsArg # Null /\ Len(cycleStatsArg[1].cycles) >= 2

\* whole days from the start date of the most recent cycle, plus 1
DayOffset(i) == logs[i].date - cycleStatsArg[1].cycles[1].start_date + 1

PhaseOfOffset(offset) ==
    IF offset < 1 \/ offset > 35 THEN "excluded"
    ELSE IF offset <= 5 THEN "menstrual"
    ELSE IF offset <= 13 THEN "follicular"
    ELSE IF offset <= 16 THEN "ovulation"
    ELSE "luteal"

\* the dates of the logs that the analysis put into the phase
DatesInPhase(phase) ==
    LET days == PhaseDays(logs, cycleStatsArg[1].cycles[1].start_date, phase)
    IN  {days[k].date : k \in DOMAIN days}

\* C22: the day-offset of a log is the number of whole days from the start
\* date of the most recent cycle plus 1; a log with an offset outside 1..35 is
\* in no phase, offsets 1-5 are menstrual, 6-13 follicular, 14-16 ovulation and
\* 17-35 luteal
C22_PhaseOfCycleDay ==
    CyclesAnalysed =>
        \A k \in DOMAIN phaseOrder :
            DatesInPhase(phaseOrder[k])
                = {logs[i].date : i \in {j \in DOMAIN logs : PhaseOfOffset(DayOffset(j)) = phaseOrder[k]}}

\* a log on the start date is in the menstrual phase, one 20 days later in
\* the luteal phase, one 35 days later in none
C22_Witness ==
    /\ CyclesAnalysed
    /\ \E i \in DOMAIN logs : DayOffset(i) = 1 /\ logs[i].date \in DatesInPhase("menstrual")
    /\ \E i \in DOMAIN logs : DayOffset(i) = 21 /\ logs[i].date \in DatesInPhase("luteal")
    /\ \E i \in DOMAIN logs :
           DayOffset(i) = 36 /\ \A k \in DOMAIN phaseOrder : logs[i].date \notin DatesInPhase(phaseOrder[k])

\* the logs of a phase, and the symptoms they hold
LogsInPhase(phase) == {i \in DOMAIN logs : PhaseOfOffset(DayOffset(i)) = phase}

SymptomsInPhase(phase) ==
    SumSeq([i \in DOMAIN logs |-> IF i \in LogsInPhase(phase) THEN SymptomsLength(logs[i]) ELSE 0])

\* the phases with at least 2 logged days
PhasesLogged == {phase \in Range(phaseOrder) : Cardinality(LogsInPhase(phase)) >= 2}

\* mean symptom count per logged day of p is at least that of q
MeanAtLeast(p, q) ==
    SymptomsInPhase(p) * Cardinality(LogsInPhase(q)) >= SymptomsInPhase(q) * Cardinality(LogsInPhase(p))

HighestMeanPhases == {p \in PhasesLogged : \A q \in PhasesLogged : MeanAtLeast(p, q)}
LowestMeanPhases == {p \in PhasesLogged : \A q \in PhasesLogged : MeanAtLeast(q, p)}

\* the highest mean is above the lowest, by `percent` per cent of it or more
HighestExceedsLowestBy(percent) ==
    \E p \in HighestMeanPhases : \E q \in LowestMeanPhases :
        /\ ~MeanAtLeast(q, p)
        /\ 100 * SymptomsInPhase(p) * Cardinality(LogsInPhase(q))
               >= (100 + percent) * SymptomsInPhase(q) * Cardinality(LogsInPhase(p))

PhaseNamed(i) == patterns[1].insights[i].text[2]

\* C23: the cycle-phase insight is produced only when cycleStats holds at
\* least 2 cycles; then it is produced exactly when, among the phases with at
\* least 2 logged days, the highest mean symptom count per logged day exceeds
\* the lowest by at least 50%, and it names a phase of highest mean
C23_WorstPhaseFlagged ==
    PatternsRun =>
        /\ InsightsOf("calendar-sync") # {}
               => cycleStatsArg # Null /\ Len(cycleStatsArg[1].cycles) >= 2
        /\ CyclesAnalysed =>
               /\ InsightsOf("calendar-sync") # {} <=> HighestExceedsLowestBy(50)
               /\ \A i \in InsightsOf("calendar-sync") : PhaseNamed(i) \in HighestMeanPhases

\* ---------------------------------------------------------------------------
\* The kinds of insight

KindOf(insight) == <<insight.icon, insight.text[1]>>

\* the placeholder, busiest weekday, poor sleep with more symptoms, fatigue
\* after short sleep, mood variability, high anxiety with lower mood, and
\* most-symptomatic cycle phase
EnumeratedKinds ==
    { <<"information", "Continue logging for at least a week to see pattern insights.">>,
      <<"calendar-week", "You tend to experience more symptoms on ">>,
      <<"sleep", "Poor sleep appears to be associated with more symptoms. Prioritizing sleep may help.">>,
      <<"battery-low", "Fatigue commonly follows nights with less than 6 hours of sleep.">>,
      <<"emoticon-confused", "Your mood has been quite variable. This can be common during perimenopause.">>,
      <<"alert-circle", "High anxiety days tend to coincide with lower mood. Consider stress-reduction techniques.">>,
      <<"calendar-sync", "Symptoms tend to be more pronounced during the ">> }

\* the variation of the cycle length
CycleVariationKind == <<"calendar-clock", "Your cycle length varies by up to ">>

\* C24, as stated: every insight returned by analyzePatterns is of one of the
\* seven enumerated kinds
C24_OnlyEnumeratedKinds ==
    PatternsRun =>
        \A i \in DOMAIN patterns[1].insights : KindOf(patterns[1].insights[i]) \in EnumeratedKinds

\* C24, amended: every insight returned by analyzePatterns is of one of the
\* seven enumerated kinds or is the cycle-length variation insight
C24_OnlyEnumeratedOrVariation ==
    PatternsRun =>
        \A i \in DOMAIN patterns[1].insights :
            KindOf(patterns[1].insights[i]) \in EnumeratedKinds \cup {CycleVariationKind}

\* the cycle-length variation insight is returned next to enumerated ones
C24_Witness ==
    /\ PatternsRun
    /\ InsightsOf("calendar-clock") # {}
    /\ InsightsOf("calendar-week") # {}
    /\ InsightsOf("calendar-sync") # {}

\* ---------------------------------------------------------------------------
\* Calling the analysis functions again on the same arrays

MaxRepeatLogs == 8

\* logs in ascending order of date and, as getLogsInRange returns them, in
\* descending order
RepeatInputs ==
    LET ascending == { PatternLogs(n, a, b, p, c) :
                           n \in (MaxRepeatLogs - 1)..MaxRepeatLogs, a \in DOMAIN PatternKinds,
                           b \in {1, 2, 3}, p \in {0, 1}, c \in {1, 5} }
    IN  ascending \cup {Reverse(ls) : ls \in ascending}

InitRepeat ==
    /\ logs \in RepeatInputs
    /\ utcOffsetHours = 0
    /\ cycleStatsArg \in {s \in CycleStatsInputs : s = Null \/ Len(s[1].cycles) = 4}
    /\ AnalysisIdle
    /\ DatabaseEmpty
    /\ ConnectionOpen
    /\ StoreEmpty
    /\ returned = {}
    /\ thrown = {}

NextRepeat ==
    \/ CallAnalyzePatterns
    \/ CallGetSymptomCorrelations
    \/ CallGetTrends

SpecRepeat == InitRepeat /\ [][NextRepeat]_vars

InputsKept == logs' = logs /\ cycleStatsArg' = cycleStatsArg

C26_ClosedPeriodHasPositiveLength ==
    \A p \in cycle_periods :
        p.end_date # Null =>
            /\ p.end_date[1] >= p.start_date
            /\ p.length # Null
            /\ p.length[1] = p.end_date[1] - p.start_date + 1
            /\ p.length[1] >= 1

(***************************************************************************)
(* database.js: the connection.  initDatabase and withDatabase are async   *)
(* functions; a step of a call is the code it runs between two awaits, and *)
(* the steps of the calls in flight interleave.                            *)
(***************************************************************************)
MaxCallers == 2
MaxOpened == 2

\* an error message, as the pieces that String.includes can find in it
NOT_INITIALIZED == <<"Database ", "not initialized", ". Call initDatabase() first.">>

Error(message) == [message |-> message]

\* what the native module throws: a lost connection, a busy database, and a
\* value without message
NativeErrors ==
    { Error(Some(<<"java.lang.", "NullPointer", "Exception">>)),
      Error(Some(<<"database is locked">>)),
      Error(Null) }

Includes(message, piece) == \E i \in DOMAIN message : message[i] = piece

\* error.message?.includes('NullPointer') || error.message?.includes('not initialized')
RetryableAlways(error) == TRUE
Retryable(error) ==
    /\ error.message # Null
    /\ \/ Includes(error.message[1], "NullPointer")
       \/ Includes(error.message[1], "not initialized")

MIGRATIONS == 2

\* a call, before it has run
NewCaller(kind) ==
    [kind |-> kind, pc |-> "called", runs |-> 0, inits |-> 0, opens |-> 0, waited |-> FALSE,
     migration |-> 0, failure |-> Null, value |-> Null, error |-> Null]

\* if (isInitializing)
BusyNever == FALSE
Busy == isInitializing

\* initDatabase up to its first await: the call waits, or sets isInitializing
\* and opens the database
Entered(caller) ==
    IF Busy
    THEN [caller EXCEPT !.pc = "waiting", !.inits = @ + 1, !.waited = TRUE]
    ELSE [caller EXCEPT !.pc = "opening", !.inits = @ + 1]

\* initDatabase returns value: the caller of initDatabase has its result, and
\* withDatabase goes on after `await initDatabase()`
Settled(caller, value) ==
    IF caller.kind = "initDatabase"
    THEN [caller EXCEPT !.pc = "resolved", !.value = value]
    ELSE [caller EXCEPT !.pc = "reinitialized", !.value = value]

\* the error leaves initDatabase, and withDatabase where it is past its try
Thrown(caller, error) == [caller EXCEPT !.pc = "rejected", !.error = Some(error)]

\* the catch block of withDatabase
Caught(caller, error) ==
    IF Retryable(error)
    THEN Entered([caller EXCEPT !.failure = Some(error)])
    ELSE Thrown([caller EXCEPT !.failure = Some(error)], error)

ConnectionKept ==
    /\ UNCHANGED <<logs, utcOffsetHours, cycleStatsArg, patterns, symptomCounts, pairCounts,
                   correlations, correlationData, trends, returned, thrown>>
    /\ UNCHANGED databaseVars
    /\ UNCHANGED storeVars

CallInitDatabase ==
    /\ Len(callers) < MaxCallers
    /\ callers' = Append(callers, Entered(NewCaller("initDatabase")))
    /\ isInitializing' = TRUE
    /\ UNCHANGED <<db, opened>>
    /\ ConnectionKept

\* withDatabase up to its first await: getDatabase throws and the catch block
\* runs, or the operation starts
CallWithDatabase ==
    /\ Len(callers) < MaxCallers
    /\ IF db = Null
       THEN /\ callers' = Append(callers, Caught(NewCaller("withDatabase"), Error(Some(NOT_INITIALIZED))))
            /\ IF Retryable(Error(Some(NOT_INITIALIZED)))
               THEN db' = Null /\ isInitializing' = TRUE
               ELSE UNCHANGED <<db, isInitializing>>
       ELSE /\ callers' = Append(callers, [NewCaller("withDatabase") EXCEPT !.pc = "operating", !.runs = 1])
            /\ UNCHANGED <<db, isInitializing>>
    /\ UNCHANGED opened
    /\ ConnectionKept

\* the 50 ms timer of a waiting call fires and isInitializing is clear
TimerFires(c) ==
    /\ callers[c].pc = "waiting"
    /\ ~isInitializing
    /\ callers' = [callers EXCEPT ![c] = Settled(@, db)]
    /\ UNCHANGED <<db, isInitializing, opened>>
    /\ ConnectionKept

\* db = await SQLite.openDatabaseAsync('peritracker.db')
OpenSucceeds(c) ==
    /\ callers[c].pc = "opening"
    /\ opened < MaxOpened
    /\ opened' = opened + 1
    /\ db' = Some(opened + 1)
    /\ callers' = [callers EXCEPT ![c].pc = "creating", ![c].opens = @ + 1]
    /\ UNCHANGED isInitializing
    /\ ConnectionKept

OpenFails(c, error) ==
    /\ callers[c].pc = "opening"
    /\ callers' = [callers EXCEPT ![c] = Thrown(@, error)]
    /\ isInitializing' = FALSE
    /\ UNCHANGED <<db, opened>>
    /\ ConnectionKept

\* await db.execAsync(`... CREATE TABLE IF NOT EXISTS ...`)
CreateSucceeds(c) ==
    /\ callers[c].pc = "creating"
    /\ callers' = [callers EXCEPT ![c].pc = "migrating", ![c].migration = 1]
    /\ UNCHANGED <<db, isInitializing, opened>>
    /\ ConnectionKept

CreateFails(c, error) ==
    /\ callers[c].pc = "creating"
    /\ callers' = [callers EXCEPT ![c] = Thrown(@, error)]
    /\ isInitializing' = FALSE
    /\ UNCHANGED <<db, opened>>
    /\ ConnectionKept

\* a migration ends, with or without error; after the last one initDatabase
\* returns db and clears isInitializing
MigrationSettles(c) ==
    /\ callers[c].pc = "migrating"
    /\ IF callers[c].migration < MIGRATIONS
       THEN /\ callers' = [callers EXCEPT ![c].migration = @ + 1]
            /\ UNCHANGED isInitializing
       ELSE /\ callers' = [callers EXCEPT ![c] = Settled(@, db)]
            /\ isInitializing' = FALSE
    /\ UNCHANGED <<db, opened>>
    /\ ConnectionKept

\* withDatabase after `await initDatabase()`: getDatabase, then the operation
Retry(c) ==
    /\ callers[c].pc = "reinitialized"
    /\ callers' = [callers EXCEPT ![c] =
                      IF db = Null
                      THEN Thrown(@, Error(Some(NOT_INITIALIZED)))
                      ELSE [@ EXCEPT !.pc = "operating", !.runs = @ + 1]]
    /\ UNCHANGED <<db, isInitializing, opened>>
    /\ ConnectionKept

OperationSucceeds(c) ==
    /\ callers[c].pc = "operating"
    /\ callers' = [callers EXCEPT ![c].pc = "resolved"]
    /\ UNCHANGED <<db, isInitializing, opened>>
    /\ ConnectionKept

\* the operation throws: inside the try block the catch block runs, inside
\* the catch block the error leaves withDatabase
OperationFails(c, error) ==
    /\ callers[c].pc = "operating"
    /\ IF callers[c].failure = Null
       THEN /\ callers' = [callers EXCEPT ![c] = Caught(@, error)]
            /\ IF Retryable(error)
               THEN db' = Null /\ isInitializing' = TRUE
               ELSE UNCHANGED <<db, isInitializing>>
       ELSE /\ callers' = [callers EXCEPT ![c] = Thrown(@, error)]
            /\ UNCHANGED <<db, isInitializing>>
    /\ UNCHANGED opened
    /\ ConnectionKept

\* the module as it is loaded: let db = null; let isInitializing = false
ConnectionClosed ==
    /\ db = Null
    /\ isInitializing = FALSE
    /\ opened = 0
    /\ callers = <<>>

InitConnection ==
    /\ logs = <<>>
    /\ utcOffsetHours = 0
    /\ cycleStatsArg = Null
    /\ AnalysisIdle
    /\ DatabaseEmpty
    /\ ConnectionClosed
    /\ StoreEmpty
    /\ returned = {}
    /\ thrown = {}

NextConnection ==
    \/ CallInitDatabase
    \/ CallWithDatabase
    \/ \E c \in DOMAIN callers : TimerFires(c)
    \/ \E c \in DOMAIN callers : OpenSucceeds(c)
    \/ \E c \in DOMAIN callers : \E error \in NativeErrors : OpenFails(c, error)
    \/ \E c \in DOMAIN callers : CreateSucceeds(c)
    \/ \E c \in DOMAIN callers : \E error \in NativeErrors : CreateFails(c, error)
    \/ \E c \in DOMAIN callers : MigrationSettles(c)
    \/ \E c \in DOMAIN callers : Retry(c)
    \/ \E c \in DOMAIN callers : OperationSucceeds(c)
    \/ \E c \in DOMAIN callers : \E error \in NativeErrors : OperationFails(c, error)

SpecConnection == InitConnection /\ [][NextConnection]_vars

WithDatabaseCalls == {c \in DOMAIN callers : callers[c].kind = "withDatabase"}
InitDatabaseCalls == {c \in DOMAIN callers : callers[c].kind = "initDatabase"}

\* the operation has run at most twice; initDatabase was called at most
\* once, and only after a first failure whose message contains 'NullPointer'
\* or 'not initialized'; any other first error is the error withDatabase
\* rejects with, after one run
RetriedOnceIfLost(caller) ==
    /\ caller.runs <= 2
    /\ caller.inits <= 1
    /\ caller.inits = 1 =>
           /\ caller.failure # Null
           /\ caller.failure[1].message # Null
           /\ \/ Includes(caller.failure[1].message[1], "NullPointer")
              \/ Includes(caller.failure[1].message[1], "not initialized")
    /\ caller.runs = 2 => caller.inits = 1
    /\ (caller.failure # Null /\ caller.inits = 0) =>
           /\ caller.pc = "rejected"
           /\ caller.error = caller.failure
           /\ caller.runs = 1
    /\ caller.pc = "rejected" => caller.error # Null

\* a call that is over stays as it is, and a call in its catch block goes on
\* to the next step of initDatabase, to the second run, or to its end: an
\* error of initDatabase or of the second run rejects it
EndsAfterRetry(before, after) ==
    /\ before.pc \in {"resolved", "rejected"} => after = before
    /\ (before.failure # Null /\ after.pc # before.pc) =>
           /\ before.pc = "waiting" => after.pc = "reinitialized"
           /\ before.pc = "opening" => after.pc \in {"creating", "rejected"}
           /\ before.pc = "creating" => after.pc \in {"migrating", "rejected"}
           /\ before.pc = "migrating" => after.pc = "reinitialized"
           /\ before.pc = "reinitialized" => after.pc \in {"operating", "rejected"}
           /\ before.pc = "operating" => after.pc \in {"resolved", "rejected"}

\* C27: withDatabase runs the operation at most twice; it calls initDatabase
\* and runs the operation again at most once, and only after a first failure
\* whose message contains 'NullPointer' or 'not initialized'; any other first
\* error, and any error of the second run or of initDatabase, is the error
\* withDatabase rejects with, and nothing is tried after it
C27_RetryOnceOnLostConnection ==
    /\ [](\A c \in WithDatabaseCalls : RetriedOnceIfLost(callers[c]))
    /\ [][\A c \in WithDatabaseCalls : EndsAfterRetry(callers[c], callers'[c])]_vars

\* one call ran the operation twice and resolved, and one was rejected by
\* initDatabase or by its second run
C27_Witness ==
    /\ \E c \in WithDatabaseCalls : callers[c].pc = "resolved" /\ callers[c].runs = 2
    /\ \E c \in WithDatabaseCalls :
           /\ callers[c].pc = "rejected"
           /\ callers[c].inits = 1
           /\ callers[c].error # callers[c].failure

\* the calls that are opening the database, creating the tables or migrating
Initializing == {c \in DOMAIN callers : callers[c].pc \in {"opening", "creating", "migrating"}}

\* C29: under any interleaving of initDatabase calls at most one call at a
\* time is opening the database or running the table-creation and migration
\* steps; a call that found isInitializing set opens nothing and only waits;
\* isInitializing is set while a call initializes and clear once it has
\* finished, by success or by failure
C29_OneInitializerAtATime ==
    /\ Cardinality(Initializing) <= 1
    /\ isInitializing <=> Initializing # {}
    /\ \A c \in DOMAIN callers :
           (callers[c].waited /\ callers[c].inits = 1) =>
               /\ callers[c].opens = 0
               /\ c \notin Initializing

\* a call initializes while another call, which found isInitializing set,
\* waits
C29_Witness ==
    \E c \in Initializing : \E w \in DOMAIN callers :
        callers[w].pc = "waiting" /\ callers[w].waited /\ isInitializing

\* C30: every initDatabase call that resolves returns a handle that is not
\* null, also when it waited for the initialization of another call
C30_ResolvesWithHandle ==
    \A c \in InitDatabaseCalls : callers[c].pc = "resolved" => callers[c].value # Null

(***************************************************************************)
(* database.js: saveDailyLog.  The tables are sets of rows; of the columns *)
(* of daily_logs that saveDailyLog copies from data, period_flow,          *)
(* mood_overall and notes stand for all.                                   *)
(***************************************************************************)
MaxSaves == 2
MaxWritesBeforeFailure == 1

Store == [daily_logs |-> daily_logs, symptoms |-> symptoms,
          medication_logs |-> medication_logs, sqlite_sequence |-> sqlite_sequence]

\* 'SELECT id FROM daily_logs WHERE date = ?'
ExistingLog(store, date) ==
    IF \E row \in store.daily_logs : row.date = date
    THEN Some(CHOOSE row \in store.daily_logs : row.date = date)
    ELSE Null

\* [logId, medLog.medicationId, medLog.taken ? 1 : 0, medLog.notes || null]
MedicationLogRow(id, logId, medLog) ==
    [id |-> id, log_id |-> logId, medication_id |-> medLog.medicationId,
     taken |-> IF medLog.taken THEN 1 ELSE 0,
     notes |-> IF medLog.notes = "" THEN Null ELSE Some(medLog.notes)]

ListOf(array) == IF array = Null THEN <<>> ELSE array[1]

\* Delete existing symptoms and medication logs
DeleteStatementsNone == <<>>
DeleteStatements == <<"DELETE FROM symptoms", "DELETE FROM medication_logs">>

\* the statements that the operation runs after the SELECT, in order
Statements(store, data) ==
    LET existing == ExistingLog(store, data.date)
        logId == IF existing # Null THEN existing[1].id ELSE store.sqlite_sequence.daily_logs + 1
        Statement(sql, item) == [sql |-> sql, logId |-> logId, item |-> item]
    IN  (IF existing # Null
         THEN << Statement("UPDATE daily_logs", Null) >>
              \o [i \in DOMAIN DeleteStatements |-> Statement(DeleteStatements[i], Null)]
         ELSE << Statement("INSERT INTO daily_logs", Null) >>)
        \o [i \in DOMAIN ListOf(data.symptoms) |->
               Statement("INSERT INTO symptoms", Some(ListOf(data.symptoms)[i]))]
        \o [i \in DOMAIN ListOf(data.medicationLogs) |->
               Statement("INSERT INTO medication_logs", Some(ListOf(data.medicationLogs)[i]))]

\* db.runAsync(statement) at time `at`
Execute(store, statement, data, at) ==
    LET sequence == store.sqlite_sequence
    IN  CASE statement.sql = "UPDATE daily_logs" ->
                 [store EXCEPT !.daily_logs =
                     {IF row.id = statement.logId
                      THEN [row EXCEPT !.period_flow = data.periodFlow,
                                       !.mood_overall = data.moodOverall,
                                       !.notes = data.notes,
                                       !.updated_at = at]
                      ELSE row : row \in store.daily_logs}]
          [] statement.sql = "DELETE FROM symptoms" ->
                 [store EXCEPT !.symptoms = {row \in store.symptoms : row.log_id # statement.logId}]
          [] statement.sql = "DELETE FROM medication_logs" ->
                 [store EXCEPT !.medication_logs =
                     {row \in store.medication_logs : row.log_id # statement.logId}]
          [] statement.sql = "INSERT INTO daily_logs" ->
                 [store EXCEPT !.daily_logs = @ \cup
                     {[id |-> sequence.daily_logs + 1, date |-> data.date,
                       period_flow |-> data.periodFlow, mood_overall |-> data.moodOverall,
                       notes |-> data.notes, created_at |-> at, updated_at |-> at]},
                               !.sqlite_sequence.daily_logs = @ + 1]
          [] statement.sql = "INSERT INTO symptoms" ->
                 [store EXCEPT !.symptoms = @ \cup
                     {[id |-> sequence.symptoms + 1, log_id |-> statement.logId,
                       symptom_id |-> statement.item[1].symptomId,
                       severity |-> statement.item[1].severity]},
                               !.sqlite_sequence.symptoms = @ + 1]
          [] statement.sql = "INSERT INTO medication_logs" ->
                 [store EXCEPT !.medication_logs = @ \cup
                     {MedicationLogRow(sequence.medication_logs + 1, statement.logId,
                                       statement.item[1])},
                               !.sqlite_sequence.medication_logs = @ + 1]

RECURSIVE ExecuteFirst(_, _, _, _, _)
ExecuteFirst(store, statements, count, data, at) ==
    IF count = 0 THEN store
    ELSE Execute(ExecuteFirst(store, statements, count - 1, data, at),
                 statements[count], data, at)

\* one run of the operation that ends after `writes` statements, all of them
\* if writes is the number of statements
Run(store, data, writes, at) == ExecuteFirst(store, Statements(store, data), writes, data, at)

\* where a run can end: after the last statement, or with an error after a
\* few of them
RunEnds(store, data) ==
    LET all == Len(Statements(store, data))
    IN  {all} \cup (0..Min(MaxWritesBeforeFailure, all - 1))

Completes(store, data, writes) == writes = Len(Statements(store, data))

SaveCall(data, pc) == [op |-> "saveDailyLog", data |-> data, pc |-> pc]

\* saveDailyLog(data) = withDatabase(operation): the first run ends after
\* `first` statements; if it fails with an error that withDatabase retries,
\* the database is opened again (or not: reopened) and the second run ends
\* after `second` statements
saveDailyLog(data, at, first, error, reopened, second) ==
    /\ Len(calls) < MaxSaves
    \* getDatabase throws before the first run if db is null
    /\ db = Null => first = 0 /\ error = Error(Some(NOT_INITIALIZED))
    /\ now' = at
    /\ \E ran \in {Run(Store, data, first, at)} :
          IF db # Null /\ Completes(Store, data, first)
          THEN /\ calls' = Append(calls, SaveCall(data, "resolved"))
               /\ daily_logs' = ran.daily_logs /\ symptoms' = ran.symptoms
               /\ medication_logs' = ran.medication_logs
               /\ sqlite_sequence' = ran.sqlite_sequence
               /\ UNCHANGED <<db, opened>>
          ELSE IF ~Retryable(error)
          THEN /\ calls' = Append(calls, SaveCall(data, "rejected"))
               /\ daily_logs' = ran.daily_logs /\ symptoms' = ran.symptoms
               /\ medication_logs' = ran.medication_logs
               /\ sqlite_sequence' = ran.sqlite_sequence
               /\ UNCHANGED <<db, opened>>
          ELSE IF ~reopened
          THEN /\ calls' = Append(calls, SaveCall(data, "rejected"))
               /\ daily_logs' = ran.daily_logs /\ symptoms' = ran.symptoms
               /\ medication_logs' = ran.medication_logs
               /\ sqlite_sequence' = ran.sqlite_sequence
               /\ db' = Null
               /\ UNCHANGED opened
          ELSE /\ second \in RunEnds(ran, data)
               /\ \E again \in {Run(ran, data, second, at)} :
                     /\ calls' = Append(calls, SaveCall(data,
                                     IF Completes(ran, data, second) THEN "resolved" ELSE "rejected"))
                     /\ daily_logs' = again.daily_logs /\ symptoms' = again.symptoms
                     /\ medication_logs' = again.medication_logs
                     /\ sqlite_sequence' = again.sqlite_sequence
               /\ db' = Some(opened + 1)
               /\ opened' = opened + 1
    /\ UNCHANGED <<isInitializing, callers>>
    /\ UNCHANGED <<cycle_periods, lastInsertRowId, periods, cycleStats, returned, thrown>>
    /\ UNCHANGED analysisVars


SaveDates == {1, 2}

\* what the Log screen hands to saveDailyLog: no symptom and no medication,
\* or two symptoms, a medication taken and one not taken, with a note
SaveData(date, variant) ==
    CASE variant = 1 ->
             [date |-> date, periodFlow |-> "none", moodOverall |-> 5, notes |-> "",
              symptoms |-> Some(<<>>), medicationLogs |-> Some(<<>>)]
      [] variant = 2 ->
             [date |-> date, periodFlow |-> "medium", moodOverall |-> 3, notes |-> "tired",
              symptoms |-> Some(<< [symptomId |-> "hot_flashes", severity |-> 3],
                                   [symptomId |-> "fatigue", severity |-> 2] >>),
              medicationLogs |-> Some(<< [medicationId |-> 1, taken |-> TRUE, notes |-> ""],
                                         [medicationId |-> 2, taken |-> FALSE, notes |-> "half"] >>)]

SaveInputs == {SaveData(date, variant) : date \in SaveDates, variant \in 1..2}

InitStore ==
    /\ logs = <<>>
    /\ utcOffsetHours = 0
    /\ cycleStatsArg = Null
    /\ AnalysisIdle
    /\ DatabaseEmpty
    /\ ConnectionOpen
    /\ StoreEmpty
    /\ returned = {}
    /\ thrown = {}

\* every way a call of saveDailyLog can go
NextStore ==
    \E data \in SaveInputs : \E at \in {now, now + 1} :
        IF db = Null
        THEN \E reopened \in BOOLEAN : \E second \in RunEnds(Store, data) :
                 (reopened \/ second = 0)
                     /\ saveDailyLog(data, at, 0, Error(Some(NOT_INITIALIZED)), reopened, second)
        ELSE \E first \in RunEnds(Store, data) :
                 IF Completes(Store, data, first)
                 THEN saveDailyLog(data, at, first, Error(Null), FALSE, 0)
                 ELSE \E error \in NativeErrors :
                          IF ~Retryable(error)
                          THEN saveDailyLog(data, at, first, error, FALSE, 0)
                          ELSE \/ saveDailyLog(data, at, first, error, FALSE, 0)
                               \/ \E second \in RunEnds(Run(Store, data, first, at), data) :
                                      saveDailyLog(data, at, first, error, TRUE, second)

SpecStore == InitStore /\ [][NextStore]_vars

\* the last call of saveDailyLog was for data and has completed
SavedLast(data) == calls # <<>> /\ calls[Len(calls)] = SaveCall(data, "resolved")

\* rows in the order of their ids
ById(rows) ==
    [k \in 1..Cardinality(rows) |->
        CHOOSE row \in rows : Cardinality({other \in rows : other.id < row.id}) = k - 1]

\* the symptoms and the medication logs stored for a log, as saveDailyLog
\* takes them
StoredSymptoms(logId) ==
    LET rows == ById({row \in symptoms : row.log_id = logId})
    IN  [k \in DOMAIN rows |->
            [symptomId |-> rows[k].symptom_id, severity |-> rows[k].severity]]

StoredMedicationLogs(logId) ==
    LET rows == ById({row \in medication_logs : row.log_id = logId})
    IN  [k \in DOMAIN rows |->
            [medicationId |-> rows[k].medication_id, taken |-> rows[k].taken = 1,
             notes |-> IF rows[k].notes = Null THEN "" ELSE rows[k].notes[1]]]

\* there is exactly one daily log for the date of data, and it holds the
\* fields, the symptoms and the medication logs of data
StoredAs(data) ==
    /\ Cardinality({row \in daily_logs : row.date = data.date}) = 1
    /\ \A row \in daily_logs :
           row.date = data.date =>
               /\ row.period_flow = data.periodFlow
               /\ row.mood_overall = data.moodOverall
               /\ row.notes = data.notes
               /\ StoredSymptoms(row.id) = ListOf(data.symptoms)
               /\ StoredMedicationLogs(row.id) = ListOf(data.medicationLogs)

\* the step is a call of saveDailyLog(data) that completes, right after one
\* that completed
SavedAgain(data) ==
    SavedLast(data) /\ calls' = Append(calls, SaveCall(data, "resolved"))

\* the daily logs with their symptoms and medication logs, without
\* updated_at and without the ids of the symptom and medication-log rows
LogsStored ==
    { [id |-> row.id, date |-> row.date, period_flow |-> row.period_flow,
       mood_overall |-> row.mood_overall, notes |-> row.notes, created_at |-> row.created_at,
       symptoms |-> StoredSymptoms(row.id), medicationLogs |-> StoredMedicationLogs(row.id)] :
        row \in daily_logs }

\* C28, as stated: after saveDailyLog(data) completes there is exactly one
\* daily log for data.date and its symptoms and medication logs are those of
\* data; saving the same data again leaves the three tables as they were
C28_SavedOnceAndSameTables ==
    /\ [](\A data \in SaveInputs : SavedLast(data) => StoredAs(data))
    /\ [][\A data \in SaveInputs :
              SavedAgain(data) =>
                  /\ daily_logs' = daily_logs
                  /\ symptoms' = symptoms
                  /\ medication_logs' = medication_logs]_vars

\* C28, amended: after saveDailyLog(data) completes there is exactly one
\* daily log for data.date and its symptoms and medication logs are those of
\* data; saving the same data again leaves the daily logs, with their id and
\* created_at, and the symptoms and medication logs of each as they were
C28_SavedOnceAndSameLogs ==
    /\ [](\A data \in SaveInputs : SavedLast(data) => StoredAs(data))
    /\ [][\A data \in SaveInputs : SavedAgain(data) => LogsStored' = LogsStored]_vars

\* the same data, with symptoms and a medication log, was saved twice in
\* sequence
C28_Witness ==
    /\ Len(calls) = 2
    /\ calls[1] = calls[2]
    /\ SavedLast(calls[2].data)
    /\ ListOf(calls[2].data.symptoms) # <<>>
    /\ ListOf(calls[2].data.medicationLogs) # <<>>

====
